---------------------------- MODULE Spec2Model ----------------------------
(***************************************************************************)
(* Agentic-QA: a Streamlit chatbot that ingests PDFs, images and YouTube   *)
(* transcripts into one FAISS index per source and answers questions by    *)
(* retrieval + completion, with three visualization intents.              *)
(*                                                                         *)
(* Python strings are sequences of one-character strings, so that          *)
(* lower(), replace(), strip(), repr(), "in" and the pathlib operations    *)
(* are computed, not assumed.  The emoji of a displayed message is left    *)
(* out; the one in the string answer_question returns is one element that  *)
(* names its code point.                                                   *)
(***************************************************************************)
EXTENDS Integers, Sequences, FiniteSets, TLC

\* ------------------------------------------------------------------------
\* Bounds of the model
\* ------------------------------------------------------------------------
\* Process clicks and handled questions of one session.
MaxOps == 2
\* Files uploaded together on one Process click.
MaxBatch == 1

\* ------------------------------------------------------------------------
\* Python str operations
\* ------------------------------------------------------------------------
UpperChars == <<"A","B","C","D","E","F","G","H","I","J","K","L","M",
                "N","O","P","Q","R","S","T","U","V","W","X","Y","Z",
                "É","È","Û">>
LowerChars == <<"a","b","c","d","e","f","g","h","i","j","k","l","m",
                "n","o","p","q","r","s","t","u","v","w","x","y","z",
                "é","è","û">>
Whitespace == {" ", "\t", "\n", "\r"}

Min(a, b) == IF a <= b THEN a ELSE b
Max(a, b) == IF a >= b THEN a ELSE b

\* s[a-1:b] of Python with 1-based inclusive bounds: out-of-range bounds are
\* clipped, never an error
Slice(s, a, b) ==
    LET lo == Max(a, 1)
        hi == Min(b, Len(s))
    IN  [i \in 1..(hi - lo + 1) |-> s[lo + i - 1]]

\* str.lower() on one character
LowerMap == [c \in {UpperChars[i] : i \in 1..Len(UpperChars)} |->
                LowerChars[CHOOSE i \in 1..Len(UpperChars) : UpperChars[i] = c]]
LowerChar(c) == IF c \in DOMAIN LowerMap THEN LowerMap[c] ELSE c

\* str.lower()
lower(s) == [i \in 1..Len(s) |-> LowerChar(s[i])]

\* s.replace(old, new) for one-character old and new
replace(s, old, new) == [i \in 1..Len(s) |-> IF s[i] = old THEN new ELSE s[i]]

\* sub in s
Contains(s, sub) ==
    \/ sub = <<>>
    \/ \E i \in 0..(Len(s) - Len(sub)) :
          s[i + 1] = sub[1] /\ Slice(s, i + 1, i + Len(sub)) = sub

\* s.startswith(p) / s.endswith(p)
StartsWith(s, p) == Len(p) <= Len(s) /\ Slice(s, 1, Len(p)) = p
EndsWith(s, p) == Len(p) <= Len(s) /\ Slice(s, Len(s) - Len(p) + 1, Len(s)) = p

\* s.strip()
strip(s) ==
    LET keep == {i \in 1..Len(s) : s[i] \notin Whitespace}
    IN  IF keep = {} THEN <<>>
        ELSE LET lo == CHOOSE i \in keep : \A j \in keep : i <= j
                 hi == CHOOSE i \in keep : \A j \in keep : j <= i
             IN  Slice(s, lo, hi)

\* s.rfind(c) as a 1-based index, 0 when c does not occur
RFind(s, c) ==
    LET at == {i \in 1..Len(s) : s[i] = c}
    IN  IF at = {} THEN 0 ELSE CHOOSE i \in at : \A j \in at : j <= i

\* s.split(marker)[-1]: the text is cut at each occurrence of marker found
\* from the left, after the end of the one before; the last piece is kept
SplitLast(s, marker) ==
    LET RECURSIVE PieceFrom(_)
        PieceFrom(i) ==
            LET at == {k \in i..(Len(s) - Len(marker) + 1) :
                          Slice(s, k, k + Len(marker) - 1) = marker}
            IN  IF at = {} THEN Slice(s, i, Len(s))
                ELSE PieceFrom((CHOOSE k \in at : \A j \in at : k <= j) + Len(marker))
    IN  PieceFrom(1)

\* One character of repr(s) inside the quotes q
ReprChar(c, q) ==
    CASE c = "\\" -> <<"\\", "\\">>
      [] c = q    -> <<"\\", q>>
      [] c = "\n" -> <<"\\", "n">>
      [] c = "\r" -> <<"\\", "r">>
      [] c = "\t" -> <<"\\", "t">>
      [] OTHER    -> <<c>>

RECURSIVE ReprBody(_, _)
ReprBody(s, q) ==
    IF s = <<>> THEN <<>> ELSE ReprChar(Head(s), q) \o ReprBody(Tail(s), q)

\* repr(s) of a str: double quotes only when s holds ' and no "
repr(s) ==
    LET q == IF Contains(s, <<"'">>) /\ ~Contains(s, <<"\"">>) THEN "\"" ELSE "'"
    IN  <<q>> \o ReprBody(s, q) \o <<q>>

\* ------------------------------------------------------------------------
\* pathlib
\* ------------------------------------------------------------------------
\* Path(p).name: the final component
PathName(p) == Slice(p, RFind(p, "/") + 1, Len(p))

\* index of the dot that starts Path.suffix, 0 when the name has no suffix
SuffixDot(name) ==
    LET i == RFind(name, ".")
    IN  IF 1 < i /\ i < Len(name) THEN i ELSE 0

PathSuffix(name) ==
    IF SuffixDot(name) = 0 THEN <<>> ELSE Slice(name, SuffixDot(name), Len(name))

PathStem(name) ==
    IF SuffixDot(name) = 0 THEN name ELSE Slice(name, 1, SuffixDot(name) - 1)


\* ------------------------------------------------------------------------
\* Configuration (configs/config.py) and literals of the program
\* ------------------------------------------------------------------------
CHUNK_SIZE == 1000
CHUNK_OVERLAP == 100
RETRIEVER_K == 5
\* Path(file.name).name[:70] in the PDF and image handlers
NAME_LIMIT == 70

IndexPrefix == <<"i","n","d","e","x","_","f","a","i","s","s","_">>
PdfSuffix == <<".","p","d","f">>
TxtSuffix == <<".","t","x","t">>
ImageSuffixes == { <<".","p","n","g">>, <<".","j","p","g">>,
                   <<".","j","p","e","g">>, <<".","t","i","f","f">> }
ImageTypeWords == { <<"i","m","a","g","e">>, <<"p","n","g">>, <<"j","p","g">>,
                    <<"j","p","e","g">>, <<"t","i","f","f">> }
PdfWord == <<"p","d","f">>
YbPrefix == <<"y","b","_">>
NoneStr == <<"N","o","n","e">>

\* index_name = stem.replace(" ", "_").lower(); INDEX_DIR / f"index_faiss_{index_name}"
IndexPath(file_name) ==
    IndexPrefix \o lower(replace(PathStem(file_name), " ", "_"))

\* ------------------------------------------------------------------------
\* Inputs: the files a user can upload, the URLs, the questions
\* ------------------------------------------------------------------------
\* An uploaded file: its name, its MIME type, whether the library can open
\* it, and per page (one page for an image) the text and whether a table is
\* detected.
ReportPdf ==
    [ name |-> <<"a"," ","b",".","p","d","f">>,
      type |-> <<"a","p","p","l","i","c","a","t","i","o","n","/","p","d","f">>,
      readable |-> TRUE,
      pages |-> << [ text |-> <<"A","g","e","n","d","a"," ","2","0","2","4"," ","d","e","s"," ","a","n","n","o","n","c","e","s"," ","f","i","n","a","n","c","i","è","r","e","s"," ","1","4"," ","f","é","v","r","i","e","r">>,
                     table |-> TRUE ] >> ]
ScanPng ==
    [ name |-> <<"A","_","B",".","p","n","g">>,
      type |-> <<"i","m","a","g","e","/","p","n","g">>,
      readable |-> TRUE,
      pages |-> << [ text |-> <<"O","C","R"," "," ","t","e","x","t">>, table |-> FALSE ] >> ]
CorruptPdf ==
    [ name |-> <<"c",".","p","d","f">>,
      type |-> <<"a","p","p","l","i","c","a","t","i","o","n","/","p","d","f">>,
      readable |-> FALSE,
      pages |-> << >> ]
Uploads == { ReportPdf, ScanPng, CorruptPdf }

\* A URL as urlparse sees it: hostname, path and the v query parameter
\* (<<>> when absent).
WatchUrl ==
    [ host |-> <<"w","w","w",".","y","o","u","t","u","b","e",".","c","o","m">>,
      path |-> <<"/","w","a","t","c","h">>,
      v |-> <<"d","Q","w","4","w","9","W","g","X","c","Q">> ]
\* a text field left blank or holding white space only
BlankUrl == [ host |-> <<>>, path |-> <<" ">>, v |-> <<>> ]
Urls == { WatchUrl }

UrlText(u) ==
    (IF u.host = <<>> THEN <<>> ELSE <<"h","t","t","p","s",":","/","/">> \o u.host)
    \o u.path
    \o (IF u.v = <<>> THEN <<>> ELSE <<"?","v","=">> \o u.v)

\* What speech-to-text returns for a downloaded video
Transcript == <<"h","e","l","l","o">>

\* ------------------------------------------------------------------------
\* Content extractors (src/utils/*_content_extraction.py)
\* ------------------------------------------------------------------------
RECURSIVE PdfText(_)
PdfText(pages) ==
    IF pages = <<>> THEN <<>>
    ELSE (IF Head(pages).text # <<>> THEN Head(pages).text \o <<"\n">> ELSE <<>>)
         \o PdfText(Tail(pages))

TablesOf(pages) == SelectSeq(pages, LAMBDA p : p.table)

\* An extractor that swallows the failure of pdfplumber.open
extract_pdf_content_lenient(file) ==
    IF ~file.readable
    THEN [ raised |-> FALSE, text |-> <<>>, tables |-> <<>> ]
    ELSE [ raised |-> FALSE, text |-> PdfText(file.pages), tables |-> TablesOf(file.pages) ]

\* pdfplumber.open raises on a missing or corrupt file; nothing catches it here
extract_pdf_content(file) ==
    IF ~file.readable
    THEN [ raised |-> TRUE, text |-> <<>>, tables |-> <<>> ]
    ELSE [ raised |-> FALSE, text |-> PdfText(file.pages), tables |-> TablesOf(file.pages) ]

\* runs of spaces and tabs become one space
RECURSIVE CollapseSpaces(_)
CollapseSpaces(s) ==
    IF s = <<>> THEN <<>>
    ELSE IF Head(s) \in {" ", "\t"}
         THEN IF Len(s) > 1 /\ s[2] \in {" ", "\t"}
              THEN CollapseSpaces(Tail(s))
              ELSE <<" ">> \o CollapseSpaces(Tail(s))
         ELSE <<Head(s)>> \o CollapseSpaces(Tail(s))

\* s.splitlines() on "\n"
RECURSIVE SplitLines(_)
SplitLines(s) ==
    LET at == {i \in 1..Len(s) : s[i] = "\n"}
    IN  IF s = <<>> THEN <<>>
        ELSE IF at = {} THEN <<s>>
        ELSE LET i == CHOOSE k \in at : \A j \in at : k <= j
             IN  <<Slice(s, 1, i - 1)>> \o SplitLines(Slice(s, i + 1, Len(s)))

RECURSIVE JoinLines(_)
JoinLines(lines) ==
    IF lines = <<>> THEN <<>>
    ELSE IF Len(lines) = 1 THEN lines[1]
    ELSE lines[1] \o <<"\n">> \o JoinLines(Tail(lines))

StripAll(lines) == [i \in 1..Len(lines) |-> strip(lines[i])]

clean_ocr_text(text) ==
    strip(JoinLines(SelectSeq(StripAll(SplitLines(CollapseSpaces(text))),
                              LAMBDA l : l # <<>>)))

\* Image.open raises on a missing or corrupt file; nothing catches it here
extract_image_content(file) ==
    IF ~file.readable
    THEN [ raised |-> TRUE, text |-> <<>>, tables |-> <<>> ]
    ELSE [ raised |-> FALSE,
           text |-> IF file.pages[1].text # <<>>
                    THEN clean_ocr_text(file.pages[1].text) ELSE <<>>,
           tables |-> TablesOf(file.pages) ]

\* s.strip("/")
RECURSIVE StripSlashes(_)
StripSlashes(s) ==
    IF s # <<>> /\ Head(s) = "/" THEN StripSlashes(Tail(s))
    ELSE IF s # <<>> /\ s[Len(s)] = "/" THEN StripSlashes(Slice(s, 1, Len(s) - 1))
    ELSE s

\* [a-zA-Z0-9_-]
AsciiLetters == 26
IdChars == {UpperChars[i] : i \in 1..AsciiLetters} \cup {LowerChars[i] : i \in 1..AsciiLetters}
           \cup {"0","1","2","3","4","5","6","7","8","9","_","-"}
EmbedPrefix == <<"/","e","m","b","e","d","/">>
YoutubeHosts == { <<"w","w","w",".","y","o","u","t","u","b","e",".","c","o","m">>,
                  <<"y","o","u","t","u","b","e",".","c","o","m">> }
ShortHost == <<"y","o","u","t","u",".","b","e">>
VIDEO_ID_LEN == 11

\* The result is an Optional[str]: some = FALSE stands for None
extract_youtube_id(url) ==
    IF url.host \in YoutubeHosts
    THEN [ some |-> url.v # <<>>, val |-> url.v ]
    ELSE IF url.host = ShortHost
    THEN [ some |-> TRUE, val |-> StripSlashes(url.path) ]
    ELSE IF /\ StartsWith(url.path, EmbedPrefix)
            /\ Len(url.path) >= Len(EmbedPrefix) + VIDEO_ID_LEN
            /\ \A i \in 1..VIDEO_ID_LEN : url.path[Len(EmbedPrefix) + i] \in IdChars
    THEN [ some |-> TRUE,
           val |-> Slice(url.path, Len(EmbedPrefix) + 1, Len(EmbedPrefix) + VIDEO_ID_LEN) ]
    ELSE [ some |-> FALSE, val |-> <<>> ]

\* str(youtube_id)
StrOfId(id) == IF id.some THEN id.val ELSE NoneStr

\* transcribe_youtube_audio: a failed download is caught and None is
\* returned with nothing written; otherwise the transcript is written to
\* yb_<video_name>.txt and returned.  dl is the outcome of the download.
transcribe_youtube_audio(video_name, dl, dir) ==
    IF ~dl.ok
    THEN [ some |-> FALSE, text |-> <<>>, dir |-> dir ]
    ELSE LET fname == YbPrefix \o video_name \o TxtSuffix
         IN  [ some |-> TRUE, text |-> dl.text,
               dir |-> {f \in dir : f.name # fname}
                       \cup {[ name |-> fname, text |-> dl.text ]} ]

\* ------------------------------------------------------------------------
\* Text chunker (src/utils/text_splitter.py)
\* ------------------------------------------------------------------------
\* RecursiveCharacterTextSplitter(chunk_size, chunk_overlap) with its default
\* separators, keep_separator (a separator starts the piece that follows it)
\* and strip_whitespace. A piece and a chunk are given by where they lie in
\* the text: [lo, hi] is text[lo..hi].
Separators == << <<"\n","\n">>, <<"\n">>, <<" ">>, <<>> >>

\* Where re.split finds the separator in text[lo..hi]: the matches are taken
\* from the left and do not overlap (in a run of newlines "\n\n" matches at
\* every second one)
SepStarts(text, lo, hi, sep) ==
    IF Len(sep) = 1 THEN {i \in lo..hi : text[i] = sep[1]}
    ELSE {i \in lo..(hi - 1) :
            /\ text[i] = sep[1] /\ text[i + 1] = sep[2]
            /\ LET run == {j \in lo..i : \A k \in j..i : text[k] = sep[1]}
               IN  (i - (CHOOSE j \in run : \A k \in run : j <= k)) % 2 = 0}

\* The members of a set of numbers in increasing order
SortedSeq(S) ==
    CHOOSE q \in { [k \in 1..Cardinality(S) |-> CHOOSE c \in S : rank[c] = k]
                    : rank \in {[c \in S |-> Cardinality({d \in S : d <= c})]} } : TRUE

\* _split_text_with_regex: the pieces of text[lo..hi], empty ones dropped;
\* with the separator "" every character is a piece
PieceSpans(text, lo, hi, sep) ==
    IF sep = <<>> THEN [x \in 1..(hi - lo + 1) |-> [ lo |-> lo + x - 1, hi |-> lo + x - 1 ]]
    ELSE CHOOSE P \in { [k \in 1..Len(start) |->
                           [ lo |-> start[k],
                             hi |-> IF k = Len(start) THEN hi ELSE start[k + 1] - 1 ]]
                        : start \in {SortedSeq(cuts)
                                       : cuts \in {SepStarts(text, lo, hi, sep) \cup {lo}}} }
         : TRUE

\* _join_docs: the joined pieces without the white space at their two ends
\* (lo > hi when nothing is left, which gives no chunk)
StripSpan(text, lo, hi) ==
    IF \A i \in lo..hi : text[i] \in Whitespace THEN [ lo |-> 1, hi |-> 0 ]
    ELSE [ lo |-> CHOOSE i \in lo..hi :
                     text[i] \notin Whitespace /\ \A j \in lo..(i - 1) : text[j] \in Whitespace,
           hi |-> CHOOSE i \in lo..hi :
                     text[i] \notin Whitespace /\ \A j \in (i + 1)..hi : text[j] \in Whitespace ]

\* _merge_splits(P[a..last], "") for pieces that lie side by side, the
\* current chunk starting with piece a: pieces are added while the total
\* stays within CHUNK_SIZE (up to piece b); then the chunk is emitted and
\* pieces are dropped from its front while more than CHUNK_OVERLAP characters
\* are kept, or the next piece does not fit and something is kept
RECURSIVE merge_splits(_, _, _, _)
merge_splits(text, P, a, last) ==
    CHOOSE docs \in
      { (IF StripSpan(text, P[a].lo, P[b].hi).hi = 0 THEN <<>>
         ELSE <<StripSpan(text, P[a].lo, P[b].hi)>>)
        \o (IF b = last THEN <<>>
            ELSE merge_splits(text, P,
                   CHOOSE x \in a..(b + 1) :
                      /\ x = b + 1
                         \/ /\ P[b].hi - P[x].lo + 1 <= CHUNK_OVERLAP
                            /\ P[b + 1].hi - P[x].lo + 1 <= CHUNK_SIZE
                      /\ x = a
                         \/ P[b].hi - P[x - 1].lo + 1 > CHUNK_OVERLAP
                         \/ P[b + 1].hi - P[x - 1].lo + 1 > CHUNK_SIZE,
                   last))
        : b \in {x \in a..last :
                    /\ P[x].hi - P[a].lo + 1 <= CHUNK_SIZE
                    /\ x = last \/ P[x + 1].hi - P[a].lo + 1 > CHUNK_SIZE} }
      : TRUE

\* The loop of _split_text over the pieces from piece i on: pieces shorter
\* than CHUNK_SIZE are merged, a longer piece is split with the separators
\* that remain (from level next on), or kept as it is when none remains
RECURSIVE split_text(_, _, _, _)
RECURSIVE Splits(_, _, _, _)
Splits(text, P, i, next) ==
    IF i > Len(P) THEN <<>>
    ELSE IF P[i].hi - P[i].lo + 1 >= CHUNK_SIZE
    THEN (IF next > Len(Separators) THEN <<P[i]>>
          ELSE split_text(text, P[i].lo, P[i].hi, next))
         \o Splits(text, P, i + 1, next)
    ELSE CHOOSE docs \in
           { merge_splits(text, P, i, j) \o Splits(text, P, j + 1, next)
             : j \in {x \in i..Len(P) :
                         /\ x = Len(P) \/ P[x + 1].hi - P[x + 1].lo + 1 >= CHUNK_SIZE
                         /\ \A y \in i..x : P[y].hi - P[y].lo + 1 < CHUNK_SIZE} }
           : TRUE

\* _split_text(text[lo..hi], separators[level:]): the first separator found
\* in the text cuts it
split_text(text, lo, hi, level) ==
    CHOOSE docs \in
      UNION { { Splits(text, P, 1, l + 1) : P \in {PieceSpans(text, lo, hi, Separators[l])} }
              : l \in {x \in level..Len(Separators) :
                         /\ Separators[x] = <<>> \/ SepStarts(text, lo, hi, Separators[x]) # {}
                         /\ \A y \in level..(x - 1) :
                               SepStarts(text, lo, hi, Separators[y]) = {}} }
      : TRUE

\* Windows of CHUNK_SIZE characters side by side
ChunkSpansApart(text) ==
    [k \in 1..((Len(text) + CHUNK_SIZE - 1) \div CHUNK_SIZE) |->
        [ lo |-> (k - 1) * CHUNK_SIZE + 1,
          hi |-> IF k * CHUNK_SIZE <= Len(text) THEN k * CHUNK_SIZE ELSE Len(text) ]]

\* splitter.split_text(text): where the chunks lie in the text
ChunkSpans(text) == split_text(text, 1, Len(text), 1)

\* The whole text as one chunk
split_text_whole(text) == IF strip(text) = <<>> THEN <<>> ELSE <<strip(text)>>

\* splitter.split_documents([Document(page_content=text)]): the chunks
split_text_into_chunks(text) ==
    CHOOSE chunks \in { [i \in 1..Len(at) |-> Slice(text, at[i].lo, at[i].hi)]
                          : at \in {ChunkSpans(text)} } : TRUE


\* ------------------------------------------------------------------------
\* Announcement dates (src/utils/announcement_dates_extraction.py)
\* ------------------------------------------------------------------------
Digits == {"0","1","2","3","4","5","6","7","8","9"}
\* \w of the regular expressions
WordChars == {UpperChars[i] : i \in 1..Len(UpperChars)}
             \cup {LowerChars[i] : i \in 1..Len(LowerChars)}
             \cup Digits \cup {"_"}
\* the characters taken after "Agenda <year> des annonces financieres"
DATE_WINDOW == 300
YEAR_DIGITS == 4

AgendaWord == <<"a","g","e","n","d","a">>
AgendaTail == <<"d","e","s"," ","a","n","n","o","n","c","e","s"," ","f","i","n","a","n","c","i","è","r","e","s">>
\* FRENCH_MONTHS, in the order of the alternation of FRENCH_DATE_PATTERN
FrenchMonths ==
    << [ name |-> <<"j","a","n","v","i","e","r">>, num |-> <<"0","1">> ],
       [ name |-> <<"f","é","v","r","i","e","r">>, num |-> <<"0","2">> ],
       [ name |-> <<"m","a","r","s">>, num |-> <<"0","3">> ],
       [ name |-> <<"a","v","r","i","l">>, num |-> <<"0","4">> ],
       [ name |-> <<"m","a","i">>, num |-> <<"0","5">> ],
       [ name |-> <<"j","u","i","n">>, num |-> <<"0","6">> ],
       [ name |-> <<"j","u","i","l","l","e","t">>, num |-> <<"0","7">> ],
       [ name |-> <<"a","o","û","t">>, num |-> <<"0","8">> ],
       [ name |-> <<"s","e","p","t","e","m","b","r","e">>, num |-> <<"0","9">> ],
       [ name |-> <<"o","c","t","o","b","r","e">>, num |-> <<"1","0">> ],
       [ name |-> <<"n","o","v","e","m","b","r","e">>, num |-> <<"1","1">> ],
       [ name |-> <<"d","é","c","e","m","b","r","e">>, num |-> <<"1","2">> ] >>

At(s, i) == IF 1 <= i /\ i <= Len(s) THEN s[i] ELSE ""

\* first index >= i that holds no white space (the end of a \s+ run)
RECURSIVE SkipSpaces(_, _)
SkipSpaces(s, i) == IF At(s, i) \in Whitespace THEN SkipSpaces(s, i + 1) ELSE i

\* AGENDA_PATTERN matched at index i (re.IGNORECASE; low is lower(s)): the
\* index of the last matched character and the year, or last = 0 when it
\* does not match
AgendaMatchAt(s, low, i) ==
    LET j1 == i + Len(AgendaWord)
        j2 == SkipSpaces(s, j1)
        j3 == j2 + YEAR_DIGITS
        j4 == SkipSpaces(s, j3)
        last == j4 + Len(AgendaTail) - 1
    IN  IF /\ Slice(low, i, j1 - 1) = AgendaWord
           /\ j2 > j1
           /\ \A k \in j2..(j3 - 1) : At(s, k) \in Digits
           /\ j4 > j3
           /\ last <= Len(s)
           /\ Slice(low, j4, last) = AgendaTail
        THEN [ last |-> last, year |-> Slice(s, j2, j3 - 1) ]
        ELSE [ last |-> 0, year |-> <<>> ]

\* FRENCH_DATE_PATTERN matched at index p of the block b (low is lower(b))
DateMatchAt(b, low, p) ==
    LET n == IF At(b, p + 1) \in Digits THEN 2 ELSE 1
        q == p + n
        m == SkipSpaces(b, q)
        fits == {k \in 1..Len(FrenchMonths) :
                    /\ m + Len(FrenchMonths[k].name) - 1 <= Len(b)
                    /\ Slice(low, m, m + Len(FrenchMonths[k].name) - 1) = FrenchMonths[k].name
                    /\ At(b, m + Len(FrenchMonths[k].name)) \notin WordChars}
    IN  IF /\ At(b, p) \in Digits
           /\ At(b, p - 1) \notin WordChars
           /\ m > q
           /\ fits # {}
        THEN LET k == CHOOSE x \in fits : TRUE
             IN  [ last |-> m + Len(FrenchMonths[k].name) - 1,
                   day |-> Slice(b, p, q - 1),
                   month |-> k ]
        ELSE [ last |-> 0, day |-> <<>>, month |-> 0 ]

\* day.zfill(2) left out
zfill_none(day) == day

\* day.zfill(2)
zfill2(day) == IF Len(day) < 2 THEN <<"0">> \o day ELSE day

\* re.findall over the block from index p on: the next match is the one
\* that starts first, and the scan goes on after its end;
\* f"{year}-{mois_num}-{jour}"
RECURSIVE DatesFrom(_, _, _, _)
DatesFrom(b, low, p, year) ==
    LET at == {k \in p..Len(b) : b[k] \in Digits /\ DateMatchAt(b, low, k).last # 0}
    IN  IF at = {} THEN <<>>
        ELSE \* the match that starts first
             LET d == DateMatchAt(b, low, CHOOSE k \in at : \A j \in at : k <= j)
             IN  <<year \o <<"-">> \o FrenchMonths[d.month].num \o <<"-">> \o zfill2(d.day)>>
                 \o DatesFrom(b, low, d.last + 1, year)

\* text[agenda_start : agenda_start + 300]
DateBlock(text, last) == Slice(text, last + 1, last + DATE_WINDOW)

\* re.finditer over the text from index i on
RECURSIVE AnnouncementsFrom(_, _, _)
AnnouncementsFrom(text, low, i) ==
    LET at == {k \in i..Len(text) :
                  low[k] = AgendaWord[1] /\ AgendaMatchAt(text, low, k).last # 0}
    IN  IF at = {} THEN <<>>
        ELSE LET a == AgendaMatchAt(text, low, CHOOSE k \in at : \A j \in at : k <= j)
             IN  DatesFrom(DateBlock(text, a.last), DateBlock(low, a.last), 1, a.year)
                 \o AnnouncementsFrom(text, low, a.last + 1)

extract_financial_announcements(text) == AnnouncementsFrom(text, lower(text), 1)

\* ------------------------------------------------------------------------
\* Vectorizers (src/vectorizers/*.py): one FAISS index per source file
\* ------------------------------------------------------------------------
\* The entries of INDEX_DIR that match index_faiss_* are a function from the
\* entry name to [kind, docs]: kind "dir" is a saved index with its
\* documents, kind "file" an entry that is not a directory.

\* A sweep without the skip: the path is never found
IndexNeverExists(path, idx) == FALSE

\* index_path.exists()
IndexExists(path, idx) == path \in DOMAIN idx

\* [Document(page_content=chunk.page_content, metadata={"source": file.name})]
DocsWithMetadata(chunks, file_name) ==
    [i \in 1..Len(chunks) |-> [ page_content |-> chunks[i], source |-> file_name ]]

\* A save that empties INDEX_DIR before it writes
SaveLocalAlone(idx, path, docs) == path :> [ kind |-> "dir", docs |-> docs ]

\* vectorstore.save_local(index_path)
SaveLocal(idx, path, docs) ==
    [k \in DOMAIN idx \cup {path} |->
        IF k = path THEN [ kind |-> "dir", docs |-> docs ] ELSE idx[k]]

\* A variant that builds the index of a file whether or not it exists
VectorizeFileAgain(file_name, ext, idx, up) ==
    LET path == IndexPath(file_name)
        chunks == split_text_into_chunks(ext.text)
    IN  IF ext.raised \/ chunks = <<>> THEN [ idx |-> idx, calls |-> {} ]
        ELSE IF ~up THEN [ idx |-> idx, calls |-> {file_name} ]
        ELSE [ idx |-> SaveLocal(idx, path, DocsWithMetadata(chunks, file_name)),
               calls |-> {file_name} ]

\* One iteration of the loop of process_all_*_in_directory, for the file
\* file_name whose extraction gives ext.  up: the embedding provider answers
\* during this call (FAISS.from_documents raises when it does not).  Every
\* exception is caught and printed.
\* calls: the sources handed to FAISS.from_documents.
VectorizeFile(file_name, ext, idx, up) ==
    LET path == IndexPath(file_name)
        chunks == split_text_into_chunks(ext.text)
    IN  IF IndexExists(path, idx) THEN [ idx |-> idx, calls |-> {} ]
        ELSE IF ext.raised THEN [ idx |-> idx, calls |-> {} ]
        ELSE IF chunks = <<>> THEN [ idx |-> idx, calls |-> {} ]
        ELSE IF ~up THEN [ idx |-> idx, calls |-> {file_name} ]
        ELSE [ idx |-> SaveLocal(idx, path, DocsWithMetadata(chunks, file_name)),
               calls |-> {file_name} ]

\* The loop over the globbed files, in the order the file system lists them
RECURSIVE Sweep(_, _, _)
Sweep(items, idx, up) ==
    IF items = <<>> THEN [ idx |-> idx, calls |-> {} ]
    ELSE LET one == VectorizeFile(Head(items).name, Head(items).ext, idx, up)
             rest == Sweep(Tail(items), one.idx, up)
         IN  [ idx |-> rest.idx, calls |-> one.calls \cup rest.calls ]

\* directory.glob("*.pdf")
GlobPdf(dir) == {f \in dir : EndsWith(f.name, PdfSuffix)}
\* directory.glob("*.*") kept when suffix.lower() is an image suffix
GlobImages(dir) ==
    {f \in dir : Contains(f.name, <<".">>) /\ lower(PathSuffix(f.name)) \in ImageSuffixes}
\* directory.glob("*.txt")
GlobTxt(dir) == {f \in dir : EndsWith(f.name, TxtSuffix)}

\* The orders in which a glob can list the files of a set
Orders(S) ==
    {o \in [1..Cardinality(S) -> S] : \A i, j \in 1..Cardinality(S) : o[i] = o[j] => i = j}

process_all_pdfs_in_directory(order, idx, up) ==
    Sweep([i \in 1..Len(order) |->
              [ name |-> order[i].name, ext |-> extract_pdf_content(order[i]) ]],
          idx, up)

process_all_images_in_directory(order, idx, up) ==
    Sweep([i \in 1..Len(order) |->
              [ name |-> order[i].name, ext |-> extract_image_content(order[i]) ]],
          idx, up)

\* process_yb_video reads the transcript file
process_all_txt_in_directory(order, idx, up) ==
    Sweep([i \in 1..Len(order) |->
              [ name |-> order[i].name,
                ext |-> [ raised |-> FALSE, text |-> order[i].text, tables |-> <<>> ] ]],
          idx, up)

\* ------------------------------------------------------------------------
\* Ingestion entrypoints (src/handlers/*.py)
\* ------------------------------------------------------------------------
\* A message displayed with st.info / st.success / st.warning / st.error
Msg(level, by, text) == [ level |-> level, by |-> by, text |-> text ]

\* What the extractor called by a handler did: it raised, or returned a
\* (text, tables) pair, a str, or None
NoExtract ==
    [ called |-> FALSE, result |-> "-", text |-> <<>>, tables |-> <<>> ]
Extracted(ext) ==
    [ called |-> TRUE, result |-> IF ext.raised THEN "raised" ELSE "pair",
      text |-> ext.text, tables |-> ext.tables ]

\* Path(file.name).name[:70], written to the directory (an existing file of
\* that name is overwritten)
SavedAs(file) == [file EXCEPT !.name = Slice(PathName(file.name), 1, NAME_LIMIT)]
DirAfterSave(file, dir) ==
    {f \in dir : f.name # SavedAs(file).name} \cup {SavedAs(file)}

\* download_and_process_pdfs(pdf_file): dir is PDF_DIR, order the listing of
\* its *.pdf files after the upload was saved; built tells whether
\* PDFVectorizerAgent() could be constructed, which happens before the try
\* block: when it could not, the exception leaves the handler (raised)
download_and_process_pdfs(pdf_file, dir, idx, order, up, built) ==
    LET saved == SavedAs(pdf_file)
        dir1 == DirAfterSave(pdf_file, dir)
        ext == extract_pdf_content(saved)
        chunks == split_text_into_chunks(ext.text)
        sw == process_all_pdfs_in_directory(order, idx, up)
        base == [ source |-> saved.name, path |-> IndexPath(saved.name),
                  dir |-> dir1, idx |-> idx, calls |-> {},
                  extract |-> Extracted(ext), shown |-> <<>>, raised |-> FALSE ]
    IN  IF ~built
        THEN [base EXCEPT !.dir = dir, !.extract = NoExtract, !.raised = TRUE]
        ELSE IF ext.raised
        THEN [base EXCEPT !.shown = << Msg("info", "handler", "Saved uploaded PDF"),
                                       Msg("error", "handler", "Error processing") >>]
        ELSE IF chunks = <<>>
        THEN [base EXCEPT !.shown = << Msg("info", "handler", "Saved uploaded PDF"),
                                       Msg("warning", "handler", "No text extracted") >>]
        ELSE [base EXCEPT !.idx = sw.idx, !.calls = sw.calls,
                          !.shown = << Msg("info", "handler", "Saved uploaded PDF"),
                                       Msg("success", "handler", "Extracted text chunks"),
                                       Msg("success", "handler", "Saved FAISS index") >>]

\* download_and_process_images(image_file): dir is IMAGE_DIR; here
\* OCRVectorizerAgent() is constructed inside the try block, after the upload
\* was saved
download_and_process_images(image_file, dir, idx, order, up, built) ==
    LET saved == SavedAs(image_file)
        dir1 == DirAfterSave(image_file, dir)
        ext == extract_image_content(saved)
        chunks == split_text_into_chunks(ext.text)
        sw == process_all_images_in_directory(order, idx, up)
        base == [ source |-> saved.name, path |-> IndexPath(saved.name),
                  dir |-> dir1, idx |-> idx, calls |-> {},
                  extract |-> Extracted(ext), shown |-> <<>>, raised |-> FALSE ]
    IN  IF ~built
        THEN [base EXCEPT !.extract = NoExtract,
                          !.shown = << Msg("info", "handler", "Saved uploaded image"),
                                       Msg("error", "handler", "Error processing") >>]
        ELSE IF ext.raised
        THEN [base EXCEPT !.shown = << Msg("info", "handler", "Saved uploaded image"),
                                       Msg("error", "handler", "Error processing") >>]
        ELSE IF chunks = <<>>
        THEN [base EXCEPT !.shown = << Msg("info", "handler", "Saved uploaded image"),
                                       Msg("warning", "handler", "No text extracted") >>]
        ELSE [base EXCEPT !.idx = sw.idx, !.calls = sw.calls,
                          !.shown = << Msg("info", "handler", "Saved uploaded image"),
                                       Msg("success", "handler", "Extracted text chunks"),
                                       Msg("success", "handler", "Saved FAISS index") >>]

\* The transcript file of a URL: YOUTUBE_DIR / f"yb_{str(youtube_id)}.txt"
TranscriptName(yt_url) == YbPrefix \o StrOfId(extract_youtube_id(yt_url)) \o TxtSuffix

\* YOUTUBE_DIR after the transcription step of the handler
YoutubeDirAfter(yt_url, dir, dl) ==
    IF \E f \in dir : f.name = TranscriptName(yt_url) THEN dir
    ELSE transcribe_youtube_audio(StrOfId(extract_youtube_id(yt_url)), dl, dir).dir

\* download_and_process_youtube_contents(yt_url): dir is YOUTUBE_DIR, dl the
\* outcome of the download, order the listing of *.txt after transcription;
\* the handler has no try block, so a YBVectorizerAgent() that cannot be
\* constructed raises out of it after the transcription step
download_and_process_youtube_contents(yt_url, dir, idx, order, up, dl, built) ==
    LET name == TranscriptName(yt_url)
        had == \E f \in dir : f.name = name
        tr == transcribe_youtube_audio(StrOfId(extract_youtube_id(yt_url)), dl, dir)
        dir1 == YoutubeDirAfter(yt_url, dir, dl)
        sw == process_all_txt_in_directory(order, idx, up)
        base == [ source |-> name, path |-> IndexPath(name),
                  dir |-> dir, idx |-> idx, calls |-> {},
                  extract |-> NoExtract, shown |-> <<>>, raised |-> FALSE ]
        ext == IF had THEN NoExtract
               ELSE [ called |-> TRUE,
                      result |-> IF tr.some THEN "str" ELSE "none",
                      text |-> tr.text, tables |-> <<>> ]
        first == IF had
                 THEN Msg("info", "handler", "Transcript already exists")
                 ELSE Msg("success", "handler", "Transcript downloaded")
    IN  IF strip(UrlText(yt_url)) = <<>>
        THEN [base EXCEPT !.shown = << Msg("warning", "handler", "No YouTube URL was provided") >>]
        ELSE IF ~built
        THEN [base EXCEPT !.dir = dir1, !.extract = ext, !.shown = << first >>,
                          !.raised = TRUE]
        ELSE [base EXCEPT
                !.dir = dir1, !.idx = sw.idx, !.calls = sw.calls,
                !.extract = ext,
                !.shown = << first,
                             Msg("success", "handler", "YouTube content processed and indexed") >>]


\* ------------------------------------------------------------------------
\* Question answering (src/agents/qa_agent.py)
\* ------------------------------------------------------------------------
AnswerMarker == <<"A","n","s","w","e","r",":">>
\* "U+274C" stands for the one character of that code point (the cross mark)
ErrorPrefix == <<"U+274C"," ","E","r","r","o","r"," ","g","e","n","e","r","a","t","i","n","g"," ","a","n","s","w","e","r","."," ","Q","u","e","s","t","i","o","n",":"," ">>
ErrorMiddle == <<"."," ","E","x","c","e","p","t","i","o","n",":"," ">>
ErrorLoading == <<"E","r","r","o","r"," ","l","o","a","d","i","n","g"," ","Q","A"," ","s","y","s","t","e","m",".">>

NoStore == [ some |-> FALSE, docs |-> {} ]

\* base_dir.glob("index_faiss_*")
GlobIndexes(idx) == {k \in DOMAIN idx : StartsWith(k, IndexPrefix)}

\* A variant without merge_from: the store first loaded is returned
MergedDocsFirst(idx) ==
    LET dirs == {x \in GlobIndexes(idx) : idx[x].kind = "dir"}
    IN  IF dirs = {} THEN {}
        ELSE { [ page_content |-> idx[k].docs[i].page_content,
                 source |-> idx[k].docs[i].source, path |-> k, pos |-> i ]
               : k \in {CHOOSE x \in dirs : TRUE},
                 i \in 1..Len(idx[CHOOSE x \in dirs : TRUE].docs) }

\* The documents of the loaded and merged stores: entries that are not
\* directories are skipped
MergedDocs(idx) ==
    UNION { { [ page_content |-> idx[k].docs[i].page_content,
                source |-> idx[k].docs[i].source,
                path |-> k, pos |-> i ] : i \in 1..Len(idx[k].docs) }
            : k \in {x \in GlobIndexes(idx) : idx[x].kind = "dir"} }

\* load_all_indexes: raises FileNotFoundError when the glob is empty; returns
\* base_store, which is still None when no entry is a directory
load_all_indexes(idx) ==
    IF GlobIndexes(idx) = {}
    THEN [ raised |-> TRUE, store |-> NoStore ]
    ELSE [ raised |-> FALSE,
           store |-> [ some |-> \E k \in GlobIndexes(idx) : idx[k].kind = "dir",
                       docs |-> MergedDocs(idx) ] ]

NoAgent == [ built |-> FALSE, vectorstore |-> NoStore ]

\* QAAgent(): self.vectorstore = self.load_all_indexes(INDEX_DIR)
QAAgentInit(idx) ==
    [ raised |-> load_all_indexes(idx).raised,
      agent |-> [ built |-> TRUE, vectorstore |-> load_all_indexes(idx).store ] ]

\* vectorstore.similarity_search(question, k) on the flat index: the k
\* documents at the smallest distance, nearest first. dist holds the distance
\* of the question to each document, which the embedding model decides; which
\* of two documents at the same distance comes first is left open
RECURSIVE similarity_search(_, _, _)
similarity_search(docs, dist, k) ==
    IF k = 0 \/ docs = {} THEN <<>>
    ELSE LET d == CHOOSE x \in docs : \A y \in docs : dist[x] <= dist[y]
         IN  <<d>> \o similarity_search(docs \ {d}, dist, k - 1)

\* The outcome of client.chat.completions.create: a text, or an exception
\* with its message
Completions ==
    { [ ok |-> TRUE,  text |-> <<"A","n","s","w","e","r",":"," ","4","2"," ">> ],
      [ ok |-> FALSE, text |-> <<"t","i","m","e","o","u","t">> ] }

\* A variant that cuts at the first marker
ParseCompletionFirst(text) ==
    LET at == {i \in 1..Len(text) : Slice(text, i, i + Len(AnswerMarker) - 1) = AnswerMarker}
    IN  IF at = {} THEN strip(text)
        ELSE strip(Slice(text, (CHOOSE i \in at : \A j \in at : i <= j) + Len(AnswerMarker),
                         Len(text)))

\* text.split("Answer:")[-1].strip() if "Answer:" in text else text.strip()
ParseCompletion(text) ==
    IF Contains(text, AnswerMarker) THEN strip(SplitLast(text, AnswerMarker)) ELSE strip(text)

\* answer_question without its try block: a failure of the completion call
\* leaves the method
answer_question_unguarded(agent, question, completion) ==
    IF ~agent.vectorstore.some
    THEN [ raised |-> "AttributeError", answer |-> <<>>, searched |-> FALSE, completed |-> FALSE ]
    ELSE [ raised |-> IF completion.ok THEN "none" ELSE "Exception",
           answer |-> IF completion.ok THEN ParseCompletion(completion.text) ELSE <<>>,
           searched |-> TRUE, completed |-> TRUE ]

\* answer_question: similarity_search is outside the try block, so calling
\* it on a vectorstore that is None raises AttributeError; a failure of the
\* completion call is caught and formatted with {question!r} and {exc}
answer_question(agent, question, completion) ==
    IF ~agent.vectorstore.some
    THEN [ raised |-> "AttributeError", answer |-> <<>>, searched |-> FALSE, completed |-> FALSE ]
    ELSE [ raised |-> "none",
           answer |-> IF completion.ok THEN ParseCompletion(completion.text)
                      ELSE ErrorPrefix \o repr(question) \o ErrorMiddle \o completion.text,
           searched |-> TRUE, completed |-> TRUE ]

\* ------------------------------------------------------------------------
\* Visualization collaborators (src/handlers/visualizer_handler.py and
\* src/agents/*_agent.py)
\* ------------------------------------------------------------------------
\* "\n".join(page.extract_text() or "" for page in pdf.pages)
PagesText(pages) == JoinLines([i \in 1..Len(pages) |-> pages[i].text])

\* extract_dates_from_pdf_dir: a PDF that cannot be opened is skipped
Range(seq) == {seq[i] : i \in 1..Len(seq)}
DatesOfDir(pdfs) ==
    UNION { Range(extract_financial_announcements(PagesText(f.pages)))
            : f \in {g \in GlobPdf(pdfs) : g.readable} }

\* The announcement dates a visualization loads: the CSV when it exists,
\* else merge_and_save_all_dates, which writes the CSV only when it found dates
HasDates(datesCsv, pdfs) == datesCsv \/ DatesOfDir(pdfs) # {}

\* VehicleSalesVisualizerAgent.plot: save_vehicles_data_to_csv always
\* rewrites the CSV
VehicleSalesPlot(st) ==
    [ raised |-> "none", salesCsv |-> TRUE, datesCsv |-> st.datesCsv ]

\* ComparatorAgent.plot: with no price on any announcement date,
\* pd.DataFrame([]).sort_values("date") raises KeyError before the
\* emptiness check.  market is what the price download finds.
ComparatorPlot(st, market) ==
    [ raised |-> IF HasDates(st.datesCsv, st.pdfs) /\ market = "none"
                 THEN "KeyError" ELSE "none",
      salesCsv |-> st.salesCsv,
      datesCsv |-> HasDates(st.datesCsv, st.pdfs) ]

\* The year column of the sales table AnalyzerAgent.load_data returns:
\* integers when the CSV is read, the strings of save_vehicles_data_to_csv
\* when it is regenerated
SalesYearType(salesCsv) == IF salesCsv THEN "int" ELSE "str"

\* AnalyzerAgent.plot: sales_df["year"] >= START_YEAR raises TypeError on a
\* str column; with no price on any date the merge on "year" raises KeyError
AnalyzerPlot(st, market) ==
    [ raised |-> IF ~HasDates(st.datesCsv, st.pdfs) THEN "none"
                 ELSE IF SalesYearType(st.salesCsv) = "str" THEN "TypeError"
                 ELSE IF market = "none" THEN "KeyError"
                 ELSE "none",
      salesCsv |-> TRUE,
      datesCsv |-> HasDates(st.datesCsv, st.pdfs) ]

\* ------------------------------------------------------------------------
\* Chatbot (application/chatbot.py)
\* ------------------------------------------------------------------------
SalesIntent == <<"v","e","h","i","c","l","e","s"," ","s","o","l","d"," ","p","e","r"," ","y","e","a","r">>
StockPrice == <<"s","t","o","c","k"," ","p","r","i","c","e">>
Cac40 == <<"c","a","c","4","0">>
Correlation == <<"c","o","r","r","e","l","a","t","i","o","n">>
Sales == <<"s","a","l","e","s">>
Stock == <<"s","t","o","c","k">>
SalesAnswer == <<"G","e","n","e","r","a","t","e","d"," ","g","r","a","p","h",":"," ","v","e","h","i","c","l","e","s"," ","s","o","l","d"," ","p","e","r"," ","y","e","a","r",".">>
ComparedAnswer == <<"C","o","m","p","a","r","e","d"," ","R","e","n","a","u","l","t"," ","s","t","o","c","k"," ","v","s"," ","C","A","C","4","0",".">>
AnalyzedAnswer == <<"A","n","a","l","y","z","e","d"," ","c","o","r","r","e","l","a","t","i","o","n"," ","b","e","t","w","e","e","n"," ","s","a","l","e","s"," ","a","n","d"," ","s","t","o","c","k",".">>

MatchesSales(q) == Contains(lower(q), SalesIntent)
MatchesStockIndex(q) == Contains(lower(q), StockPrice) /\ Contains(lower(q), Cac40)
MatchesCorrelation(q) ==
    Contains(lower(q), Correlation) /\ Contains(lower(q), Sales) /\ Contains(lower(q), Stock)

\* A variant that tests the intents in the opposite order
RouteLast(q) ==
    IF MatchesCorrelation(q) THEN "correlation"
    ELSE IF MatchesStockIndex(q) THEN "stock_vs_index"
    ELSE IF MatchesSales(q) THEN "sales"
    ELSE "retrieval"

\* The branch _handle_question takes
Route(q) ==
    IF MatchesSales(q) THEN "sales"
    ELSE IF MatchesStockIndex(q) THEN "stock_vs_index"
    ELSE IF MatchesCorrelation(q) THEN "correlation"
    ELSE "retrieval"

\* The questions typed in the text field
Questions ==
    { <<"V","e","h","i","c","l","e","s"," ","S","o","l","d"," ","P","e","r"," ","Y","e","a","r","?">>,
      <<"C","o","r","r","e","l","a","t","i","o","n"," ","o","f"," ","S","A","L","E","S"," ","a","n","d"," ","s","t","o","c","k"," ","p","r","i","c","e"," ","v","s"," ","C","A","C","4","0">>,
      <<"c","o","r","r","e","l","a","t","i","o","n"," ","s","a","l","e","s"," ","s","t","o","c","k">>,
      <<"w","h","y"," ","a","\\","b","?">> }
BlankQuestion == <<" ">>

\* _handle_question(question).  st: the files and the agent of this Chatbot
\* object; completion and market: what the external services answer.
\* returned = FALSE: an exception leaves the method (raised names it).
\* called: the collaborators called; loads: runs of load_all_indexes that
\* returned a merged store.
HandleQuestion(question, st, completion, market) ==
    LET route == Route(question)
        base == [ returned |-> TRUE, raised |-> "none", answer |-> <<>>,
                  called |-> {}, loads |-> 0, agent |-> st.agent,
                  salesCsv |-> st.salesCsv, datesCsv |-> st.datesCsv, shown |-> <<>> ]
        viz == CASE route = "sales" -> VehicleSalesPlot(st)
                 [] route = "stock_vs_index" -> ComparatorPlot(st, market)
                 [] OTHER -> AnalyzerPlot(st, market)
        fixed == CASE route = "sales" -> SalesAnswer
                   [] route = "stock_vs_index" -> ComparedAnswer
                   [] OTHER -> AnalyzedAnswer
        init == QAAgentInit(st.idx)
        agent == IF st.agent.built THEN st.agent ELSE init.agent
        ans == answer_question(agent, question, completion)
    IN  IF route # "retrieval"
        THEN [base EXCEPT !.returned = viz.raised = "none", !.raised = viz.raised,
                          !.answer = IF viz.raised = "none" THEN fixed ELSE <<>>,
                          !.called = {route},
                          !.salesCsv = viz.salesCsv, !.datesCsv = viz.datesCsv,
                          !.shown = << Msg("info", "chatbot", "Generating graph") >>]
        ELSE IF ~st.agent.built /\ init.raised
        THEN [base EXCEPT !.answer = ErrorLoading, !.called = {"QAAgent"},
                          !.shown = << Msg("error", "chatbot", "Error loading QA system") >>]
        ELSE [base EXCEPT !.returned = ans.raised = "none", !.raised = ans.raised,
                          !.answer = ans.answer, !.agent = agent,
                          !.loads = IF ~st.agent.built /\ init.agent.vectorstore.some
                                   THEN 1 ELSE 0,
                          !.called = (IF st.agent.built THEN {} ELSE {"QAAgent"})
                                     \cup (IF ans.searched THEN {"similarity_search"} ELSE {})
                                     \cup (IF ans.completed THEN {"completion"} ELSE {})]

\* HumanMessage(content=...) / AIMessage(content=...)
HumanMessage(content) == [ role |-> "user", content |-> content ]
AIMessage(content) == [ role |-> "assistant", content |-> content ]

\* A constructor that creates the memory on every run
ChatbotMemoryFresh(mem) == [ present |-> TRUE, messages |-> <<>> ]

\* Chatbot.__init__: the session memory is created only when the session has
\* none yet
ChatbotMemory(mem) ==
    IF mem.present THEN mem ELSE [ present |-> TRUE, messages |-> <<>> ]

\* _log_file_message(name, type_)
LogFileMessage(messages, name, type_) ==
    messages
    \o << HumanMessage(<<"U","p","l","o","a","d","e","d"," ">> \o type_ \o <<":", " ">> \o name),
          AIMessage(<<"P","r","o","c","e","s","s","e","d"," ">> \o name \o <<" ","a","s"," ">> \o type_ \o <<".">>) >>

\* _log_and_display_answer(question, ai_answer)
LogAnswer(messages, question, ai_answer) ==
    messages \o << HumanMessage(question), AIMessage(ai_answer) >>

PdfLabel == <<"P","D","F">>
ImageLabel == <<"i","m","a","g","e">>
UrlLabel == <<"Y","o","u","T","u","b","e"," ","U","R","L">>

\* The branch _process_uploaded_file takes on uploaded_file.type.lower()
FileKind(file) ==
    IF Contains(lower(file.type), PdfWord) THEN "pdf"
    ELSE IF \E w \in ImageTypeWords : Contains(lower(file.type), w) THEN "image"
    ELSE "unsupported"

\* ------------------------------------------------------------------------
\* State
\* ------------------------------------------------------------------------
VARIABLES
    pdfDir,     \* the files of PDF_DIR
    imageDir,   \* the files of IMAGE_DIR
    ytDir,      \* the transcripts of YOUTUBE_DIR
    indexDir,   \* the index_faiss_* entries of INDEX_DIR
    salesCsv,   \* vehicles_sold_per_year.csv exists
    datesCsv,   \* announcement_result_dates.csv exists
    memory,     \* st.session_state.memory
    qa_agent,   \* self.qa_agent of the current Chatbot object
    pc,         \* where the current script run is
    pending,    \* the uploaded files not processed yet
    ops,        \* Process clicks and questions handled so far
    loads,      \* merged stores load_all_indexes has returned in this session
    shown,      \* the messages the current script run has displayed
    ingest,     \* the last call of an ingestion entrypoint
    asked,      \* the last call of _handle_question
    hf_token,   \* os.getenv("HUGGINGFACE_TOKEN") after load_dotenv()
    fn_in,      \* the argument of a function that is checked on its own
    fn_out,     \* what that function returned for fn_in
    sessions    \* the sweeps of browser sessions that run side by side

vars == << pdfDir, imageDir, ytDir, indexDir, salesCsv, datesCsv, memory, qa_agent,
           pc, pending, ops, loads, shown, ingest, asked,
           hf_token, fn_in, fn_out, sessions >>

\* What a script run of one session never writes
aside == << hf_token, fn_in, fn_out, sessions >>

disk == << pdfDir, imageDir, ytDir, indexDir, salesCsv, datesCsv >>

\* ingest.existed: the index path of the source existed when the call began;
\* ingest.intact: the source could be read (the download succeeded);
\* ingest.raised: an exception left the entrypoint
NoIngest ==
    [ n |-> 0, entry |-> "-", source |-> <<>>, path |-> <<>>, existed |-> FALSE,
      intact |-> TRUE, calls |-> {}, extract |-> NoExtract, shown |-> <<>>,
      raised |-> FALSE ]
\* asked.stored: an index directory was persisted when the call began;
\* asked.completion: what the completion API answered, when it was called
NoCompletion == [ ok |-> TRUE, text |-> <<>> ]
NoAsked ==
    [ n |-> 0, question |-> <<>>, stored |-> FALSE, completion |-> NoCompletion,
      returned |-> FALSE, raised |-> "none", answer |-> <<>>, called |-> {},
      shown |-> <<>> ]

\* An entry of INDEX_DIR that matches the glob and is not a directory
StrayEntry == IndexPrefix \o <<"o","l","d",".","z","i","p">>
\* An index directory an earlier session saved
PriorEntry == IndexPrefix \o <<"o","l","d">>
PriorDocs == << [ page_content |-> <<"o","l","d">>, source |-> <<"o","l","d",".","p","d","f">> ] >>

\* What os.getenv("HUGGINGFACE_TOKEN") gives: unset, set to the empty string,
\* or set; the environment and the .env file stay as they were at the start
NoToken == [ some |-> FALSE, val |-> <<>> ]
Tokens ==
    { NoToken, [ some |-> TRUE, val |-> <<>> ],
      [ some |-> TRUE, val |-> <<"h","f","_","x">> ] }

\* A variant that never checks the token
qa_agent_import_unchecked(token) == [ raised |-> FALSE ]

\* Importing src.agents.qa_agent: `if not hf_token: raise ValueError(...)`
qa_agent_import(token) == [ raised |-> ~token.some \/ token.val = <<>> ]

\* app.py imports application.chatbot, which imports src.agents.qa_agent
AppImported(token) == ~qa_agent_import(token).raised

Init ==
    /\ pdfDir = {} /\ imageDir = {} /\ ytDir = {}
    /\ indexDir \in { <<>>,
                       StrayEntry :> [ kind |-> "file", docs |-> <<>> ],
                       PriorEntry :> [ kind |-> "dir", docs |-> PriorDocs ] }
    /\ salesCsv = FALSE /\ datesCsv = FALSE
    /\ memory = [ present |-> FALSE, messages |-> <<>> ]
    /\ qa_agent = NoAgent
    /\ pc = "idle" /\ pending = <<>> /\ ops = 0 /\ loads = 0
    /\ shown = <<>>
    /\ ingest = NoIngest /\ asked = NoAsked
    /\ hf_token \in Tokens
    /\ fn_in = <<>> /\ fn_out = <<>> /\ sessions = <<>>

\* ------------------------------------------------------------------------
\* A script run: app.py builds a new Chatbot and calls run()
\* ------------------------------------------------------------------------
\* A script run that ends at the import line of app.py: the ValueError of
\* qa_agent.py leaves the script before Chatbot() is built
ImportFails ==
    /\ pc = "idle" /\ ~AppImported(hf_token)
    /\ shown' = << Msg("error", "streamlit", "Missing HUGGINGFACE_TOKEN in .env") >>
    /\ UNCHANGED << aside, disk, memory, qa_agent, pc, pending, ops, loads, ingest, asked >>

\* A Chatbot object that keeps the agent of the run before
ChatbotQaAgentKept == qa_agent

\* Chatbot.__init__: self.qa_agent = None, on every script run
ChatbotQaAgent == NoAgent

\* Chatbot().run() with the Home page selected, up to the Process button
OpenHome ==
    /\ pc = "idle" /\ AppImported(hf_token)
    /\ qa_agent' = ChatbotQaAgent
    /\ memory' = ChatbotMemory(memory)
    /\ shown' = <<>>
    /\ pc' = "process"
    /\ UNCHANGED << aside, disk, pending, ops, loads, ingest, asked >>

\* Chatbot().run() with the history page selected: show_history
OpenHistory ==
    /\ pc = "idle" /\ AppImported(hf_token)
    /\ qa_agent' = ChatbotQaAgent
    /\ memory' = ChatbotMemory(memory)
    /\ shown' = IF ChatbotMemory(memory).messages = <<>>
                THEN << Msg("info", "chatbot", "No conversation history yet") >>
                ELSE << Msg("markdown", "chatbot", "history") >>
    /\ pc' = "idle"
    /\ UNCHANGED << aside, disk, pending, ops, loads, ingest, asked >>

\* show_home: the Process button was not clicked in this run
NoClick ==
    /\ pc = "process"
    /\ pc' = "question"
    /\ UNCHANGED << aside, disk, memory, qa_agent, pending, ops, loads, shown, ingest, asked >>

\* The lists of files an upload can hold
Batches ==
    {b \in UNION {[1..n -> Uploads] : n \in 1..MaxBatch} :
        \A i, j \in 1..Len(b) : b[i] = b[j] => i = j}

\* show_home: Process clicked with uploaded files; the loop over them starts
\* (the URL field is not looked at).  batches: the uploads the user can
\* make; limit: how many operations the session runs
ClickProcess(limit, batches) ==
    /\ pc = "process" /\ ops < limit
    /\ \E b \in batches : pending' = b
    /\ ops' = ops + 1
    /\ pc' = "files"
    /\ UNCHANGED << aside, disk, memory, qa_agent, loads, shown, ingest, asked >>

ClickFiles == pc = "process" /\ ClickProcess(MaxOps, Batches)

\* _process_uploaded_file(file) for the next file of the loop; it catches
\* FileNotFoundError and ValueError only, so an exception that leaves the
\* handler leaves the loop and ends the script run
ProcessUploadedFile ==
    /\ pc = "files" /\ pending # <<>>
    /\ \E file \in {Head(pending)} :
       \E kind \in {FileKind(file)} :
       \E dir \in {IF kind = "pdf" THEN pdfDir ELSE imageDir} :
       \E listed \in {IF kind = "pdf" THEN GlobPdf(DirAfterSave(file, dir))
                       ELSE GlobImages(DirAfterSave(file, dir))} :
       \E order \in Orders(listed), up \in BOOLEAN, built \in BOOLEAN :
       \E r \in {IF kind = "pdf"
                  THEN download_and_process_pdfs(file, dir, indexDir, order, up, built)
                  ELSE download_and_process_images(file, dir, indexDir, order, up, built)} :
         /\ kind # "unsupported"
         /\ ~built => ~up
         /\ pdfDir' = IF kind = "pdf" THEN r.dir ELSE pdfDir
         /\ imageDir' = IF kind = "pdf" THEN imageDir ELSE r.dir
         /\ indexDir' = r.idx
         /\ ingest' = [ n |-> ingest.n + 1, entry |-> kind,
                        source |-> r.source, path |-> r.path,
                        existed |-> r.path \in DOMAIN indexDir,
                        intact |-> file.readable,
                        calls |-> r.calls, extract |-> r.extract,
                        shown |-> r.shown, raised |-> r.raised ]
         /\ shown' = << Msg("info", "chatbot", "Detected file"),
                        Msg("info", "chatbot", "Processing") >>
                     \o r.shown
                     \o IF r.raised
                        THEN << Msg("error", "streamlit", "uncaught exception") >>
                        ELSE << Msg("success", "chatbot", "processed successfully") >>
         /\ memory' = IF r.raised THEN memory
                      ELSE [memory EXCEPT !.messages =
                              LogFileMessage(@, file.name,
                                             IF kind = "pdf" THEN PdfLabel ELSE ImageLabel)]
         /\ pending' = IF r.raised THEN <<>> ELSE Tail(pending)
         /\ pc' = IF r.raised THEN "idle"
                  ELSE IF Tail(pending) = <<>> THEN "question" ELSE "files"
    /\ UNCHANGED << aside, ytDir, salesCsv, datesCsv, qa_agent, ops, loads, asked >>

\* show_home: Process clicked with no file and a URL: _process_youtube_url,
\* which catches FileNotFoundError and ValueError only
ClickUrl ==
    /\ pc = "process" /\ ops < MaxOps
    /\ \E yt_url \in Urls, dl \in { [ ok |-> TRUE, text |-> Transcript ],
                                    [ ok |-> FALSE, text |-> <<>> ] } :
       \E listed \in {GlobTxt(YoutubeDirAfter(yt_url, ytDir, dl))} :
       \E order \in Orders(listed), up \in BOOLEAN, built \in BOOLEAN :
       \E r \in {download_and_process_youtube_contents(yt_url, ytDir, indexDir,
                                                        order, up, dl, built)} :
         /\ strip(UrlText(yt_url)) # <<>>
         /\ ~built => ~up
         /\ ytDir' = r.dir
         /\ indexDir' = r.idx
         /\ ingest' = [ n |-> ingest.n + 1, entry |-> "youtube",
                        source |-> r.source, path |-> r.path,
                        existed |-> r.path \in DOMAIN indexDir,
                        intact |-> r.extract.called => dl.ok,
                        calls |-> r.calls, extract |-> r.extract,
                        shown |-> r.shown, raised |-> r.raised ]
         /\ shown' = << Msg("info", "chatbot", "Processing YouTube video") >>
                     \o r.shown
                     \o IF r.raised
                        THEN << Msg("error", "streamlit", "uncaught exception") >>
                        ELSE << Msg("success", "chatbot", "YouTube video processed and indexed") >>
         /\ memory' = IF r.raised THEN memory
                      ELSE [memory EXCEPT !.messages =
                              LogFileMessage(@, UrlText(yt_url), UrlLabel)]
         /\ pc' = IF r.raised THEN "idle" ELSE "question"
    /\ ops' = ops + 1
    /\ UNCHANGED << aside, pdfDir, imageDir, salesCsv, datesCsv, qa_agent, pending, loads, asked >>

\* show_home: Process clicked with no file and a blank URL
ClickNothing ==
    /\ pc = "process"
    /\ strip(UrlText(BlankUrl)) = <<>>
    /\ shown' = << Msg("warning", "chatbot", "Please upload a file or provide a YouTube URL") >>
    /\ pc' = "question"
    /\ UNCHANGED << aside, disk, memory, qa_agent, pending, ops, loads, ingest, asked >>

\* show_home: the question field is blank
NoQuestion ==
    /\ pc = "question"
    /\ strip(BlankQuestion) = <<>>
    /\ pc' = "idle"
    /\ UNCHANGED << aside, disk, memory, qa_agent, pending, ops, loads, shown, ingest, asked >>

\* show_home: _handle_question(question), then _log_and_display_answer when
\* it returned; an exception that leaves _handle_question ends the run
Ask(limit, questions) ==
    /\ pc = "question" /\ ops < limit
    /\ \E question \in questions, completion \in Completions, market \in {"overlap", "none"} :
       \E r \in {HandleQuestion(question,
                                 [ idx |-> indexDir, pdfs |-> pdfDir, agent |-> qa_agent,
                                   salesCsv |-> salesCsv, datesCsv |-> datesCsv ],
                                 completion, market)} :
         /\ strip(question) # <<>>
         /\ asked' = [ n |-> asked.n + 1, question |-> question,
                       stored |-> \E k \in DOMAIN indexDir : indexDir[k].kind = "dir",
                       completion |-> IF "completion" \in r.called
                                      THEN completion ELSE NoCompletion,
                       returned |-> r.returned, raised |-> r.raised,
                       answer |-> r.answer, called |-> r.called,
                       shown |-> r.shown ]
         /\ qa_agent' = r.agent
         /\ loads' = loads + r.loads
         /\ salesCsv' = r.salesCsv
         /\ datesCsv' = r.datesCsv
         /\ memory' = IF r.returned
                      THEN [memory EXCEPT !.messages = LogAnswer(@, question, r.answer)]
                      ELSE memory
         /\ shown' = IF r.returned
                     THEN r.shown \o << Msg("success", "chatbot", "Answer") >>
                     ELSE r.shown
    /\ ops' = ops + 1
    /\ pc' = "idle"
    /\ UNCHANGED << aside, pdfDir, imageDir, ytDir, indexDir, pending, ingest >>

AskQuestion == pc = "question" /\ Ask(MaxOps, Questions)

Next ==
    \/ ImportFails
    \/ OpenHome
    \/ OpenHistory
    \/ NoClick
    \/ ClickFiles
    \/ ProcessUploadedFile
    \/ ClickUrl
    \/ ClickNothing
    \/ NoQuestion
    \/ AskQuestion

Spec == Init /\ [][Next]_vars

\* ------------------------------------------------------------------------
\* extract_financial_announcements on its own: the texts are lists of
\* fragments, so that what a text holds is known apart from its characters
\* ------------------------------------------------------------------------
MaxTokens == 3

\* No session is open and nothing is on disk
Quiet ==
    /\ pdfDir = {} /\ imageDir = {} /\ ytDir = {} /\ indexDir = <<>>
    /\ salesCsv = FALSE /\ datesCsv = FALSE
    /\ memory = [ present |-> FALSE, messages |-> <<>> ]
    /\ qa_agent = NoAgent
    /\ pc = "idle" /\ pending = <<>> /\ ops = 0 /\ loads = 0
    /\ shown = <<>>
    /\ ingest = NoIngest /\ asked = NoAsked
    /\ hf_token = NoToken /\ sessions = <<>>

session == << pdfDir, imageDir, ytDir, indexDir, salesCsv, datesCsv, memory, qa_agent,
              pc, pending, ops, loads, shown, ingest, asked, hf_token, sessions >>

NotRun == [ done |-> FALSE, val |-> <<>> ]

\* Fragments of a PDF text: anchors, day-month pairs (span: the characters
\* from the day to the end of the month name), and text that holds neither.
\* The filler is 9 characters short of the window after an anchor.
DateFragments ==
    { [ kind |-> "anchor", year |-> <<"2","0","2","3">>, md |-> <<>>, span |-> 0,
        text |-> <<"A","g","e","n","d","a"," ","2","0","2","3"," ","d","e","s"," ","a","n","n","o","n","c","e","s"," ","f","i","n","a","n","c","i","è","r","e","s"," ">> ],
      [ kind |-> "anchor", year |-> <<"2","0","2","4">>, md |-> <<>>, span |-> 0,
        text |-> <<"A","G","E","N","D","A","\n","2","0","2","4"," "," ","D","E","S"," ","A","N","N","O","N","C","E","S"," ","F","I","N","A","N","C","I","È","R","E","S"," ">> ],
      [ kind |-> "date", year |-> <<>>, md |-> <<"0","1","-","2","5">>, span |-> 10,
        text |-> <<"2","5"," ","j","a","n","v","i","e","r"," ">> ],
      [ kind |-> "date", year |-> <<>>, md |-> <<"0","5","-","0","3">>, span |-> 5,
        text |-> <<"3"," ","M","A","I",","," ">> ],
      [ kind |-> "date", year |-> <<>>, md |-> <<"0","2","-","3","1">>, span |-> 10,
        text |-> <<"3","1"," ","f","é","v","r","i","e","r"," ">> ],
      [ kind |-> "other", year |-> <<>>, md |-> <<>>, span |-> 0,
        text |-> <<"x","1"," ","m","a","r","s"," ","1","2"," ","m","a","i","s"," ">> ],
      [ kind |-> "other", year |-> <<>>, md |-> <<>>, span |-> 0,
        text |-> [i \in 1..(DATE_WINDOW - 9) |-> "."] ] }

RECURSIVE Concat(_)
Concat(frags) == IF frags = <<>> THEN <<>> ELSE Head(frags).text \o Concat(Tail(frags))

DateTexts ==
    { [ frags |-> fs, text |-> Concat(fs) ]
        : fs \in UNION {[1..n -> DateFragments] : n \in 0..MaxTokens} }

DatesInit ==
    /\ Quiet
    /\ fn_in \in DateTexts
    /\ fn_out = NotRun

\* extract_financial_announcements(text) is called
ExtractDates ==
    /\ ~fn_out.done
    /\ fn_out' = [ done |-> TRUE, val |-> extract_financial_announcements(fn_in.text) ]
    /\ UNCHANGED << session, fn_in >>

DatesSpec == DatesInit /\ [][ExtractDates]_vars

\* ------------------------------------------------------------------------
\* The answer taken out of a completion text, on its own
\* ------------------------------------------------------------------------
CompletionFragments ==
    { [ text |-> AnswerMarker ], [ text |-> <<" ","4","2"," ">> ], [ text |-> <<"a","n","s","w","e","r",":">> ],
      [ text |-> <<"A","n","s","w","e","r">> ], [ text |-> <<":">> ], [ text |-> <<"\n","\t","n","o"," ">> ] }

CompletionTexts ==
    { [ frags |-> fs, text |-> Concat(fs) ]
        : fs \in UNION {[1..n -> CompletionFragments] : n \in 0..MaxTokens} }

ParseInit ==
    /\ Quiet
    /\ fn_in \in CompletionTexts
    /\ fn_out = NotRun

\* answer_question: the answer is taken out of the completion text
ParseAnswer ==
    /\ ~fn_out.done
    /\ fn_out' = [ done |-> TRUE, val |-> ParseCompletion(fn_in.text) ]
    /\ UNCHANGED << session, fn_in >>

ParseSpec == ParseInit /\ [][ParseAnswer]_vars

\* ------------------------------------------------------------------------
\* split_text_into_chunks on its own
\* ------------------------------------------------------------------------
MaxText == 2

\* A text of n characters with the two newlines of a paragraph break every pw
\* characters, a newline every lw and a space every w + 1 (0: none)
MakeText(n, pw, lw, w) ==
    [i \in 1..n |->
        IF pw > 0 /\ i % pw \in {0, pw - 1} THEN "\n"
        ELSE IF lw > 0 /\ i % lw = 0 THEN "\n"
        ELSE IF w > 0 /\ i % (w + 1) = 0 THEN " "
        ELSE LowerChars[(i % 7) + 1]]

TextShapes ==
    { <<0, 0, 0>>, <<0, 0, 4>>, <<0, 0, 7>>, <<0, 0, 149>>, <<0, 0, 1200>>,
      <<0, 60, 0>>, <<0, 60, 7>>, <<700, 0, 9>>, <<1300, 60, 9>>, <<1300, 0, 0>> }

TextLengths ==
    {0} \cup {k * CHUNK_SIZE + d : k \in 0..(MaxText - 1), d \in {1, 450, 900, 950, CHUNK_SIZE}}

ChunkInit ==
    /\ Quiet
    /\ fn_in \in { [ shape |-> sh, text |-> MakeText(n, sh[1], sh[2], sh[3]) ]
                     : sh \in TextShapes, n \in TextLengths }
    /\ fn_out = NotRun

\* split_text_into_chunks(text) is called; at: where each chunk lies in the text
SplitText ==
    /\ ~fn_out.done
    /\ \E at \in {ChunkSpans(fn_in.text)}, val \in {split_text_into_chunks(fn_in.text)} :
          fn_out' = [ done |-> TRUE, val |-> val, at |-> at ]
    /\ UNCHANGED << session, fn_in >>

ChunkSpec == ChunkInit /\ [][SplitText]_vars

\* ------------------------------------------------------------------------
\* _handle_question on its own: the questions are lists of fragments, each
\* holding the words of one test of the intents or none
\* ------------------------------------------------------------------------
QuestionFragments ==
    { [ text |-> <<"V","e","h","i","c","l","e","s"," ","S","o","l","d"," ","P","e","r"," ","Y","e","a","r"," ">> ],
      [ text |-> <<"S","t","o","c","k"," ","P","r","i","c","e"," ">> ],
      [ text |-> <<"C","A","C","4","0"," ">> ],
      [ text |-> <<"c","o","r","r","e","l","a","t","i","o","n"," ","o","f"," ","S","A","L","E","S"," ">> ],
      [ text |-> <<"s","t","o","c","k"," ">> ],
      [ text |-> <<"w","h","y","?"," ">> ] }

\* The questions, and what the Chatbot object finds when it is asked: the
\* entries of INDEX_DIR and the two reference CSVs
QuestionInputs ==
    { [ frags |-> fs, text |-> Concat(fs),
        st |-> [ idx |-> idx, pdfs |-> {}, agent |-> NoAgent,
                 salesCsv |-> sales, datesCsv |-> dates ] ]
        : fs \in UNION {[1..n -> QuestionFragments] : n \in 1..MaxTokens},
          idx \in { <<>>, PriorEntry :> [ kind |-> "dir", docs |-> PriorDocs ] },
          sales \in BOOLEAN, dates \in BOOLEAN }

RouteInit ==
    /\ Quiet
    /\ fn_in \in QuestionInputs
    /\ fn_out = NotRun

\* _handle_question(question) is called
RouteQuestion ==
    /\ ~fn_out.done
    /\ \E completion \in Completions, market \in {"overlap", "none"} :
       \E r \in {HandleQuestion(fn_in.text, fn_in.st, completion, market)} :
         fn_out' = [ done |-> TRUE, val |-> r.answer, called |-> r.called,
                     returned |-> r.returned ]
    /\ UNCHANGED << session, fn_in >>

RouteSpec == RouteInit /\ [][RouteQuestion]_vars

\* ------------------------------------------------------------------------
\* extract_youtube_id on its own: the URLs are given as urlparse returns
\* them (hostname in lower case, path, and the v parameter of the query)
\* ------------------------------------------------------------------------
VideoId == <<"d","Q","w","4","w","9","W","g","X","c","Q">>
OtherId == <<"a","b","c","-","_","0","1","2","3","4","5">>

UrlHosts ==
    YoutubeHosts \cup { ShortHost,
                        <<"m",".","y","o","u","t","u","b","e",".","c","o","m">>,
                        <<"e","x","a","m","p","l","e",".","o","r","g">> }
UrlPaths ==
    { <<>>, <<"/">>, <<"/","w","a","t","c","h">>,
      <<"/">> \o VideoId, <<"/">> \o VideoId \o <<"/">>,
      EmbedPrefix \o VideoId, EmbedPrefix \o OtherId \o <<"/","x">>,
      EmbedPrefix \o <<"s","h","o","r","t">> }

ParsedUrls ==
    { [ host |-> h, path |-> p, v |-> v ]
        : h \in UrlHosts, p \in UrlPaths, v \in { <<>>, VideoId, OtherId } }

IdInit ==
    /\ Quiet
    /\ fn_in \in ParsedUrls
    /\ fn_out = NotRun

\* extract_youtube_id(url) is called
ExtractId ==
    /\ ~fn_out.done
    /\ fn_out' = [ done |-> TRUE, val |-> extract_youtube_id(fn_in) ]
    /\ UNCHANGED << session, fn_in >>

IdSpec == IdInit /\ [][ExtractId]_vars

\* ------------------------------------------------------------------------
\* One upload of several files: show_home loops over uploaded_files and
\* calls _process_uploaded_file for each (application/chatbot.py)
\* ------------------------------------------------------------------------
MaxUpload == 2

\* A second PDF that can be read
NotePdf ==
    [ name |-> <<"n",".","p","d","f">>,
      type |-> <<"a","p","p","l","i","c","a","t","i","o","n","/","p","d","f">>,
      readable |-> TRUE,
      pages |-> << [ text |-> <<"n","o","t","e">>, table |-> FALSE ] >> ]

\* st.file_uploader(accept_multiple_files=True): the lists of files of one
\* upload
UploadBatches ==
    {b \in UNION {[1..n -> Uploads \cup {NotePdf}] : n \in 1..MaxUpload} :
        \A i, j \in 1..Len(b) : b[i] = b[j] => i = j}

\* The application started with its token set
BatchInit == Init /\ AppImported(hf_token)

\* show_home: Process clicked with the files of one upload; the session
\* uploads once
ClickBatch ==
    /\ pc = "process" /\ ops = 0
    /\ \E b \in UploadBatches : pending' = b
    /\ ops' = ops + 1
    /\ pc' = "files"
    /\ UNCHANGED << aside, disk, memory, qa_agent, loads, shown, ingest, asked >>

BatchSpec ==
    BatchInit /\ [][OpenHome \/ ClickBatch \/ ProcessUploadedFile \/ NoQuestion]_vars

\* One Process click of show_home in each of its three branches: files
\* uploaded (the URL field is not looked at), no file and a URL, neither
ProcessSpec ==
    BatchInit /\ [][\/ OpenHome \/ NoClick \/ ClickBatch \/ ProcessUploadedFile
                    \/ ClickUrl \/ ClickNothing \/ NoQuestion]_vars

\* ------------------------------------------------------------------------
\* One session that uploads PDFs and asks retrieval questions in turn, one
\* after the other (application/chatbot.py, app.py)
\* ------------------------------------------------------------------------
MaxRuns == 3

\* One readable PDF per upload
PdfUploads == { <<ReportPdf>>, <<NotePdf>> }

\* The questions that match no visualization intent
RetrievalQuestions == {q \in Questions : Route(q) = "retrieval"}

UploadPdf == pc = "process" /\ ClickProcess(MaxRuns, PdfUploads)

AskRetrieval == pc = "question" /\ Ask(MaxRuns, RetrievalQuestions)

SessionSpec ==
    BatchInit /\ [][\/ OpenHome \/ NoClick \/ UploadPdf \/ ProcessUploadedFile
                    \/ NoQuestion \/ AskRetrieval]_vars

\* ------------------------------------------------------------------------
\* Several sessions ingesting PDFs at the same time: each runs
\* download_and_process_pdfs and, in it, the loop of
\* process_all_pdfs_in_directory, step by step (src/handlers/pdf_handler.py,
\* src/vectorizers/pdf_vectorizer.py).  PDF_DIR and INDEX_DIR are shared.
\* ------------------------------------------------------------------------
MaxSessions == 2

\* A session: where it stands (idle: nothing uploaded yet; sweep: at the head
\* of the loop; build: past the existence check of the file Head(todo);
\* save: the vector store of that file is built; done), the files its loop
\* still has to visit, the documents of the store it built, and what it has
\* done so far: the sources it handed to the embedding provider and the
\* index paths it wrote.
Waiting ==
    [ pc |-> "idle", todo |-> <<>>, docs |-> <<>>, embedded |-> {}, wrote |-> {} ]

\* The PDFs the sessions upload
RacePdfs == { ReportPdf, NotePdf }

\* What the sessions of this scenario leave alone
apart == << imageDir, ytDir, salesCsv, datesCsv, memory, qa_agent, pc, pending,
            ops, loads, shown, ingest, asked, hf_token, fn_in, fn_out >>

RaceInit ==
    /\ pdfDir = {} /\ imageDir = {} /\ ytDir = {} /\ indexDir = <<>>
    /\ salesCsv = FALSE /\ datesCsv = FALSE
    /\ memory = [ present |-> FALSE, messages |-> <<>> ]
    /\ qa_agent = NoAgent
    /\ pc = "idle" /\ pending = <<>> /\ ops = 0 /\ loads = 0
    /\ shown = <<>>
    /\ ingest = NoIngest /\ asked = NoAsked
    /\ hf_token \in {t \in Tokens : AppImported(t)}
    /\ fn_in = <<>> /\ fn_out = <<>>
    /\ sessions = [s \in 1..MaxSessions |-> Waiting]

\* A variant with a lock: a path another session is building counts as
\* existing
IndexPathExistsOrHeld(path) ==
    \/ IndexExists(path, indexDir)
    \/ \E t \in DOMAIN sessions :
          /\ sessions[t].pc \in {"build", "save"}
          /\ IndexPath(Head(sessions[t].todo).name) = path

\* index_path.exists(), as a session sees it when it runs the check
IndexPathExists(path) ==
    IndexExists(path, indexDir)

\* download_and_process_pdfs up to the call of the sweep: the upload is
\* saved and has text; the sweep lists the *.pdf files of PDF_DIR
Upload(s) ==
    /\ sessions[s].pc = "idle"
    /\ \E file \in RacePdfs :
       \E order \in Orders(GlobPdf(DirAfterSave(file, pdfDir))) :
         /\ split_text_into_chunks(extract_pdf_content(SavedAs(file)).text) # <<>>
         /\ pdfDir' = DirAfterSave(file, pdfDir)
         /\ sessions' = [sessions EXCEPT ![s].pc = "sweep", ![s].todo = order]
    /\ UNCHANGED << apart, indexDir >>

\* The loop is over
Finish(s) ==
    /\ sessions[s].pc = "sweep" /\ sessions[s].todo = <<>>
    /\ sessions' = [sessions EXCEPT ![s].pc = "done"]
    /\ UNCHANGED << apart, pdfDir, indexDir >>

\* `if index_path.exists(): continue`
Skip(s) ==
    /\ sessions[s].pc = "sweep" /\ sessions[s].todo # <<>>
    /\ IndexPathExists(IndexPath(Head(sessions[s].todo).name))
    /\ sessions' = [sessions EXCEPT ![s].todo = Tail(@)]
    /\ UNCHANGED << apart, pdfDir, indexDir >>

\* The index path does not exist: the iteration goes on
Pass(s) ==
    /\ sessions[s].pc = "sweep" /\ sessions[s].todo # <<>>
    /\ ~IndexPathExists(IndexPath(Head(sessions[s].todo).name))
    /\ sessions' = [sessions EXCEPT ![s].pc = "build"]
    /\ UNCHANGED << apart, pdfDir, indexDir >>

\* process_pdf and FAISS.from_documents; an exception is caught and the loop
\* goes on with the next file
Embed(s) ==
    /\ sessions[s].pc = "build"
    /\ \E file \in {Head(sessions[s].todo)}, up \in BOOLEAN :
       \E chunks \in {split_text_into_chunks(extract_pdf_content(file).text)} :
         sessions' =
            IF chunks = <<>>
            THEN [sessions EXCEPT ![s].pc = "sweep", ![s].todo = Tail(@)]
            ELSE IF ~up
            THEN [sessions EXCEPT ![s].pc = "sweep", ![s].todo = Tail(@),
                                  ![s].embedded = @ \cup {file.name}]
            ELSE [sessions EXCEPT ![s].pc = "save",
                                  ![s].docs = DocsWithMetadata(chunks, file.name),
                                  ![s].embedded = @ \cup {file.name}]
    /\ UNCHANGED << apart, pdfDir, indexDir >>

\* vectorstore.save_local(index_path)
Save(s) ==
    /\ sessions[s].pc = "save"
    /\ \E path \in {IndexPath(Head(sessions[s].todo).name)} :
         /\ indexDir' = SaveLocal(indexDir, path, sessions[s].docs)
         /\ sessions' = [sessions EXCEPT ![s].pc = "sweep", ![s].todo = Tail(@),
                                         ![s].docs = <<>>,
                                         ![s].wrote = @ \cup {path}]
    /\ UNCHANGED << apart, pdfDir >>

RaceNext ==
    \/ \E s \in DOMAIN sessions : Upload(s)
    \/ \E s \in DOMAIN sessions : Skip(s)
    \/ \E s \in DOMAIN sessions : Pass(s)
    \/ \E s \in DOMAIN sessions : Embed(s)
    \/ \E s \in DOMAIN sessions : Save(s)
    \/ \E s \in DOMAIN sessions : Finish(s)

RaceSpec == RaceInit /\ [][RaceNext]_vars

\* ------------------------------------------------------------------------
\* Properties
\* ------------------------------------------------------------------------
IsPrefix(s, t) == Len(s) <= Len(t) /\ \A i \in 1..Len(s) : s[i] = t[i]

\* A warning or an error is among the messages
HasAlert(msgs) == \E i \in 1..Len(msgs) : msgs[i].level \in {"warning", "error"}

\* The sources ingested so far, each with the text its extraction gives
SourceTexts ==
    {[ name |-> f.name, text |-> IF f.readable THEN PdfText(f.pages) ELSE <<>> ] : f \in pdfDir}
    \cup {[ name |-> f.name,
            text |-> IF f.readable THEN extract_image_content(f).text ELSE <<>> ] : f \in imageDir}
    \cup {[ name |-> f.name, text |-> f.text ] : f \in ytDir}

\* C1: when an ingestion entrypoint is called for a source whose index path
\* already exists, the entry at that path is the same after the call as
\* before it, and the source is not handed to the embedding provider during
\* the call.
C1_ReingestIsNoOp ==
    [][ (ingest'.n # ingest.n /\ ingest'.existed) =>
            /\ ingest'.path \in DOMAIN indexDir'
            /\ indexDir'[ingest'.path] = indexDir[ingest'.path]
            /\ ingest'.source \notin ingest'.calls ]_vars

\* C1: a source with text was ingested while its index existed
C1_Reingested ==
    /\ ingest.n > 0 /\ ingest.existed
    /\ ingest.extract.text # <<>>
    /\ ingest.source \notin ingest.calls

\* C2 (as stated): a question that matches no visualization intent, asked
\* while no index directory is persisted, never raises: _handle_question
\* returns the plain error string and an error is shown.
C2_NoIndexIsAnErrorNotACrash ==
    (asked.n > 0 /\ Route(asked.question) = "retrieval" /\ ~asked.stored) =>
        /\ asked.returned
        /\ asked.answer = ErrorLoading
        /\ HasAlert(asked.shown)

\* C3 (amended): when the completion call fails, answer_question returns (no
\* exception leaves _handle_question) a string that contains repr(question)
\* and the text of the exception.
C3_CompletionFailureIsReturned ==
    (asked.n > 0 /\ "completion" \in asked.called /\ ~asked.completion.ok) =>
        /\ asked.returned /\ asked.raised = "none"
        /\ Contains(asked.answer, repr(asked.question))
        /\ Contains(asked.answer, asked.completion.text)

\* C3: the completion call failed on a question that repr() escapes
C3_CompletionFailed ==
    /\ asked.n > 0 /\ "completion" \in asked.called /\ ~asked.completion.ok
    /\ asked.returned
    /\ Contains(asked.question, <<"\\">>)

\* C3 (as stated): when the completion call fails, the returned string
\* contains the question itself and the text of the exception.
C3_AnswerHoldsTheQuestion ==
    (asked.n > 0 /\ "completion" \in asked.called /\ ~asked.completion.ok) =>
        /\ asked.returned /\ asked.raised = "none"
        /\ Contains(asked.answer, asked.question)
        /\ Contains(asked.answer, asked.completion.text)

\* C4 (as stated): for a question that matches a visualization intent,
\* _handle_question calls the visualization of a matching intent and nothing
\* of the retrieval path, and returns that intent's fixed string.
C4_VisualizationIntents ==
    (asked.n > 0 /\ (\/ MatchesSales(asked.question)
                     \/ MatchesStockIndex(asked.question)
                     \/ MatchesCorrelation(asked.question))) =>
        /\ asked.returned
        /\ \/ MatchesSales(asked.question)
              /\ asked.called = {"sales"} /\ asked.answer = SalesAnswer
           \/ MatchesStockIndex(asked.question)
              /\ asked.called = {"stock_vs_index"} /\ asked.answer = ComparedAnswer
           \/ MatchesCorrelation(asked.question)
              /\ asked.called = {"correlation"} /\ asked.answer = AnalyzedAnswer

\* C5 (as stated): in one session load_all_indexes returns a merged store at
\* most once; later retrieval questions reuse it.
C5_StoreLoadedOnce == loads <= 1

\* C6 (as stated): after a call of an ingestion entrypoint, either the call
\* displayed a warning or an error, or the index directory of the source
\* exists.
C6_IngestionEndsWithErrorOrIndex ==
    ingest.n > 0 =>
        \/ HasAlert(ingest.shown)
        \/ /\ ingest.path \in DOMAIN indexDir
           /\ indexDir[ingest.path].kind = "dir"

\* C7 (amended): called on a PDF or an image that cannot be read,
\* extract_pdf_content and extract_image_content raise; called when the
\* download fails, transcribe_youtube_audio does not raise and returns None.
\* No text and no table comes out in either case.
C7_ExtractorOnUnreadableSource ==
    (ingest.n > 0 /\ ingest.extract.called /\ ~ingest.intact) =>
        /\ ingest.entry \in {"pdf", "image"} => ingest.extract.result = "raised"
        /\ ingest.entry = "youtube" => ingest.extract.result = "none"
        /\ ingest.extract.text = <<>> /\ ingest.extract.tables = <<>>

\* C7: extract_pdf_content was called on a PDF that cannot be read
C7_UnreadablePdfExtracted ==
    /\ ingest.n > 0 /\ ingest.entry = "pdf"
    /\ ingest.extract.called /\ ~ingest.intact

\* C7 (as stated): called on a source that cannot be read, an extractor
\* returns empty text and an empty table list.
C7_ExtractorReturnsEmpty ==
    (ingest.n > 0 /\ ingest.extract.called /\ ~ingest.intact) =>
        /\ ingest.extract.result = "pair"
        /\ ingest.extract.text = <<>> /\ ingest.extract.tables = <<>>

\* C8 (as stated): two distinct ingested sources with text never have the
\* same index path, and the index at the path of a source with text holds
\* the chunks of that source only.
C8_OneIndexPerSource ==
    \A f \in SourceTexts : strip(f.text) # <<>> =>
        /\ \A g \in SourceTexts :
              (strip(g.text) # <<>> /\ g.name # f.name) => IndexPath(g.name) # IndexPath(f.name)
        /\ IndexPath(f.name) \in DOMAIN indexDir =>
              \A i \in 1..Len(indexDir[IndexPath(f.name)].docs) :
                  indexDir[IndexPath(f.name)].docs[i].source = f.name

\* C9: every step keeps every entry of the index directory as it is (none is
\* rewritten or removed), and a step that handles a question leaves the
\* index directory unchanged.
C9_IndexesAppendOnly ==
    [][ /\ \A k \in DOMAIN indexDir : k \in DOMAIN indexDir' /\ indexDir'[k] = indexDir[k]
        /\ asked'.n # asked.n => indexDir' = indexDir ]_vars

\* C9: an index was saved beside an older one, and a question followed
C9_GrownThenAsked ==
    /\ asked.n > 0 /\ ingest.n > 0
    /\ Cardinality({k \in DOMAIN indexDir : indexDir[k].kind = "dir"}) >= 2

\* C10: every step keeps the logged turns as a prefix of the log (a new
\* Chatbot object on a rerun included), and a question that was answered
\* appends exactly the user question, then the assistant answer.
C10_LogAppendOnly ==
    [][ /\ IsPrefix(memory.messages, memory'.messages)
        /\ (asked'.n # asked.n /\ asked'.returned) =>
              memory'.messages = memory.messages
                                 \o << HumanMessage(asked'.question),
                                       AIMessage(asked'.answer) >> ]_vars

\* C10: a run began with a new Chatbot object after a question was logged
C10_RerunAfterAnswer ==
    /\ pc = "process"
    /\ asked.n > 0 /\ asked.returned
    /\ Len(memory.messages) >= 2
    /\ memory.messages[Len(memory.messages)] = AIMessage(asked.answer)

RECURSIVE FragLen(_)
FragLen(frags) == IF frags = <<>> THEN 0 ELSE Len(Head(frags).text) + FragLen(Tail(frags))

RECURSIVE PairsAfter(_, _, _, _)
PairsAfter(frags, i, j, year) ==
    IF j > Len(frags) THEN <<>>
    ELSE (IF /\ frags[j].kind = "date"
             /\ FragLen(SubSeq(frags, i + 1, j - 1)) + frags[j].span <= 300
          THEN << year \o <<"-">> \o frags[j].md >> ELSE <<>>)
         \o PairsAfter(frags, i, j + 1, year)

RECURSIVE DatesHeld(_, _)
DatesHeld(frags, i) ==
    IF i > Len(frags) THEN <<>>
    ELSE (IF frags[i].kind = "anchor"
          THEN PairsAfter(frags, i, i + 1, frags[i].year) ELSE <<>>)
         \o DatesHeld(frags, i + 1)


\* C11: extract_financial_announcements returns, for each anchor and each
\* day-month pair in the 300 characters after it, <year>-<month number>-<day
\* on two digits>, in order of occurrence; a text without anchor gives the
\* empty list
C11_DatesOfEveryAnchor ==
    fn_out.done =>
        /\ fn_out.val = DatesHeld(fn_in.frags, 1)
        /\ (\A i \in 1..Len(fn_in.frags) : fn_in.frags[i].kind # "anchor")
              => fn_out.val = <<>>

\* An anchor, a one-digit day within the window and a pair beyond it
C11_AnchorWithDates ==
    /\ fn_out.done
    /\ Len(fn_in.frags) = 3
    /\ fn_in.frags[1].kind = "anchor" /\ fn_in.frags[2].kind = "other"
    /\ fn_in.frags[3].span = 5
    /\ Len(fn_in.text) > 300
    /\ fn_out.val = << <<"2","0","2","4","-","0","5","-","0","3">> >>

\* The number a string of digits writes
RECURSIVE NumberOf(_)
NumberOf(ds) ==
    IF ds = <<>> THEN 0
    ELSE 10 * NumberOf(SubSeq(ds, 1, Len(ds) - 1))
         + (CHOOSE n \in 0..9 : <<"0","1","2","3","4","5","6","7","8","9">>[n + 1] = ds[Len(ds)])

\* The days of a month of the Gregorian calendar
DaysIn(year, month) ==
    IF month \in {4, 6, 9, 11} THEN 30
    ELSE IF month # 2 THEN 31
    ELSE IF year % 4 = 0 /\ (year % 100 # 0 \/ year % 400 = 0) THEN 29 ELSE 28

IsCalendarDate(d) ==
    /\ Len(d) = 10 /\ d[5] = "-" /\ d[8] = "-"
    /\ \A i \in {1, 2, 3, 4, 6, 7, 9, 10} : d[i] \in Digits
    /\ NumberOf(SubSeq(d, 6, 7)) \in 1..12
    /\ NumberOf(SubSeq(d, 9, 10)) \in 1..DaysIn(NumberOf(SubSeq(d, 1, 4)), NumberOf(SubSeq(d, 6, 7)))

\* C19: every date extract_financial_announcements produces is a calendar
\* date YYYY-MM-DD, month in 01..12 and day a valid day of that month
C19_DatesAreCalendarDates ==
    fn_out.done => \A i \in 1..Len(fn_out.val) : IsCalendarDate(fn_out.val[i])


\* t without the white space at its two ends
Trimmed(t) ==
    LET ink == {i \in 1..Len(t) : t[i] \notin {" ", "\t", "\n", "\r"}}
    IN  IF ink = {} THEN <<>>
        ELSE SubSeq(t, CHOOSE i \in ink : \A j \in ink : i <= j,
                       CHOOSE i \in ink : \A j \in ink : j <= i)

\* Where "Answer:" occurs in t
MarkerAt(t) ==
    {i \in 1..Len(t) : i + 6 <= Len(t) /\ SubSeq(t, i, i + 6) = <<"A","n","s","w","e","r",":">>}

\* C12: the answer is the text after the last occurrence of "Answer:",
\* trimmed, when the completion holds the marker, and the whole completion
\* text, trimmed, when it does not
C12_AnswerAfterLastMarker ==
    fn_out.done =>
        IF MarkerAt(fn_in.text) = {}
        THEN fn_out.val = Trimmed(fn_in.text)
        ELSE \E last \in MarkerAt(fn_in.text) :
                /\ \A i \in MarkerAt(fn_in.text) : i <= last
                /\ fn_out.val = Trimmed(SubSeq(fn_in.text, last + 7, Len(fn_in.text)))

\* A completion with two markers, the second made of two fragments, was parsed
C12_TwoMarkersParsed ==
    /\ fn_out.done
    /\ Cardinality(MarkerAt(fn_in.text)) = 2
    /\ Len(fn_in.frags) = 3 /\ fn_in.frags[1].text # fn_in.frags[2].text
    /\ fn_out.val = <<>>


\* The chunks of every index directory persisted under INDEX_DIR
PersistedChunks ==
    { c \in [ page_content : UNION {{indexDir[k].docs[i].page_content
                                       : i \in 1..Len(indexDir[k].docs)} : k \in DOMAIN indexDir},
              source : UNION {{indexDir[k].docs[i].source
                                 : i \in 1..Len(indexDir[k].docs)} : k \in DOMAIN indexDir},
              path : DOMAIN indexDir,
              pos : 1..RETRIEVER_K ] :
        /\ indexDir[c.path].kind = "dir"
        /\ c.pos <= Len(indexDir[c.path].docs)
        /\ indexDir[c.path].docs[c.pos].page_content = c.page_content
        /\ indexDir[c.path].docs[c.pos].source = c.source }

\* C13: the store load_all_indexes returns holds exactly the chunks of every
\* persisted index directory, and for every k up to their number and whatever
\* the distances are, a top-k query on it returns k chunks of that union, none
\* of them farther from the question than a chunk left out
C13_MergedStoreIsTheUnion ==
    (qa_agent.built /\ qa_agent.vectorstore.some) =>
        /\ qa_agent.vectorstore.docs = PersistedChunks
        /\ \A k \in 1..Cardinality(PersistedChunks) :
           \A dist \in [PersistedChunks -> 1..Cardinality(PersistedChunks)] :
              LET found == {similarity_search(qa_agent.vectorstore.docs, dist, k)[i] : i \in 1..k}
              IN  /\ Cardinality(found) = k
                  /\ found \subseteq PersistedChunks
                  /\ \A d \in found : \A e \in PersistedChunks \ found : dist[d] <= dist[e]

\* A store merged from two index directories answered a question
C13_TwoIndexesMerged ==
    /\ qa_agent.built /\ qa_agent.vectorstore.some
    /\ asked.n > 0 /\ "similarity_search" \in asked.called
    /\ Cardinality({c.path : c \in qa_agent.vectorstore.docs}) = 2


\* C14: every chunk split_text_into_chunks returns has at most CHUNK_SIZE
\* (1000) characters
C14_ChunksWithinSize ==
    fn_out.done => \A i \in 1..Len(fn_out.val) : Len(fn_out.val[i]) <= 1000

\* A text with spaces was cut into three chunks or more
C14_LongTextSplit ==
    /\ fn_out.done /\ Len(fn_out.val) >= 3
    /\ fn_in.shape = <<0, 0, 7>>
    /\ \A i \in 1..Len(fn_out.val) : fn_out.val[i] # <<>>


\* The characters two chunks that follow each other have in common
Shared(i) == fn_out.at[i].hi - fn_out.at[i + 1].lo + 1

\* C15 as stated: any two adjacent chunks overlap by exactly CHUNK_OVERLAP
\* (100) characters, the last 100 characters of a chunk being the first 100
\* of the next one, the final chunk left aside
C15_OverlapIsExact ==
    fn_out.done =>
        \A i \in 1..(Len(fn_out.val) - 2) :
            /\ Len(fn_out.val[i]) >= 100 /\ Len(fn_out.val[i + 1]) >= 100
            /\ SubSeq(fn_out.val[i], Len(fn_out.val[i]) - 99, Len(fn_out.val[i]))
                 = SubSeq(fn_out.val[i + 1], 1, 100)

\* C15, amended: every chunk is a stretch of the text that starts after the
\* one before and ends no earlier; two adjacent chunks share at most CHUNK_OVERLAP
\* characters, and exactly CHUNK_OVERLAP (the last 100 characters of one are
\* the first 100 of the next, the final chunk included) when the text holds
\* no white space
C15_OverlapAtMost ==
    fn_out.done =>
        /\ Len(fn_out.at) = Len(fn_out.val)
        /\ \A i \in 1..Len(fn_out.val) :
              fn_out.val[i] = SubSeq(fn_in.text, fn_out.at[i].lo, fn_out.at[i].hi)
        /\ \A i \in 1..(Len(fn_out.val) - 1) :
              /\ fn_out.at[i].lo < fn_out.at[i + 1].lo
              /\ fn_out.at[i].hi <= fn_out.at[i + 1].hi
              /\ Shared(i) <= CHUNK_OVERLAP
              /\ (\A k \in 1..Len(fn_in.text) : fn_in.text[k] \notin {" ", "\t", "\n", "\r"})
                    => /\ Shared(i) = CHUNK_OVERLAP
                       /\ SubSeq(fn_out.val[i], Len(fn_out.val[i]) - 99, Len(fn_out.val[i]))
                            = SubSeq(fn_out.val[i + 1], 1, 100)

\* A text of words was cut into three chunks; the first two share 95 characters
C15_WordsShareLess ==
    /\ fn_out.done /\ Len(fn_out.val) = 3
    /\ \E k \in 1..Len(fn_in.text) : fn_in.text[k] = " "
    /\ Shared(1) = 95


\* C17 (as stated): when a file of an upload fails, the failure stays with
\* that file: no exception leaves its processing, and the loop goes on with
\* every file that was still to be processed.
C17_FailureStaysWithItsSource ==
    [][ (pc = "files" /\ ingest'.n # ingest.n) =>
            /\ ~ingest'.raised
            /\ pending' = Tail(pending) ]_vars


\* The names of the files saved in the source directory of an entrypoint
SavedNames(entry, pdfs, images) ==
    {f.name : f \in IF entry = "pdf" THEN pdfs ELSE images}

C20_OnlyTheExistenceCheck ==
    [][ \A s \in DOMAIN sessions :
          /\ ( /\ sessions[s].pc = "sweep" /\ sessions[s].todo # <<>>
               /\ sessions'[s] # sessions[s]
               /\ IndexPath(Head(sessions[s].todo).name) \notin DOMAIN indexDir )
             => sessions'[s].pc = "build"
          /\ ( sessions[s].pc = "save" /\ sessions'[s] # sessions[s] )
             => /\ IndexPath(Head(sessions[s].todo).name) \in sessions'[s].wrote
                /\ indexDir'[IndexPath(Head(sessions[s].todo).name)].docs = sessions[s].docs ]_vars

\* C20: two sessions handed the same source to the embedding provider and
\* both wrote its index path
C20_EmbeddedTwiceWrittenTwice ==
    \E s, t \in DOMAIN sessions :
        /\ s # t
        /\ \E f \in RacePdfs :
             /\ f.name \in sessions[s].embedded \cap sessions[t].embedded
             /\ IndexPath(f.name) \in sessions[s].wrote \cap sessions[t].wrote


\* The day-month pairs of an anchor's own agenda: those that follow the
\* anchor frags[i] within the window and come before the next anchor
RECURSIVE OwnPairs(_, _, _, _)
OwnPairs(frags, i, j, year) ==
    IF j > Len(frags) \/ frags[j].kind = "anchor" THEN <<>>
    ELSE (IF /\ frags[j].kind = "date"
             /\ FragLen(SubSeq(frags, i + 1, j - 1)) + frags[j].span <= 300
          THEN << year \o <<"-">> \o frags[j].md >> ELSE <<>>)
         \o OwnPairs(frags, i, j + 1, year)

RECURSIVE OwnDates(_, _)
OwnDates(frags, i) ==
    IF i > Len(frags) THEN <<>>
    ELSE (IF frags[i].kind = "anchor"
          THEN OwnPairs(frags, i, i + 1, frags[i].year) ELSE <<>>)
         \o OwnDates(frags, i + 1)

\* C21 (as stated): the dates reported under the year of an anchor are the
\* day-month pairs of that anchor's own agenda; a pair that follows a later
\* anchor is not reported under the year of an earlier anchor.
C21_AnchorsKeepTheirOwnDates ==
    fn_out.done => fn_out.val = OwnDates(fn_in.frags, 1)


\* The handlers _handle_question can run
Visualizations == {"sales", "stock_vs_index", "correlation"}
RetrievalSteps == {"QAAgent", "similarity_search", "completion"}

\* C22: the intents are tested in the order sales per year, stock versus
\* CAC40, sales-stock correlation: the visualization of the first intent the
\* question matches is the only handler that runs, and a question that
\* matches none goes to the retrieval path and to no visualization.
C22_FirstMatchingIntentOnly ==
    fn_out.done =>
        /\ MatchesSales(fn_in.text) => fn_out.called = {"sales"}
        /\ (~MatchesSales(fn_in.text) /\ MatchesStockIndex(fn_in.text))
              => fn_out.called = {"stock_vs_index"}
        /\ ( /\ ~MatchesSales(fn_in.text) /\ ~MatchesStockIndex(fn_in.text)
             /\ MatchesCorrelation(fn_in.text) )
              => fn_out.called = {"correlation"}
        /\ ( /\ ~MatchesSales(fn_in.text) /\ ~MatchesStockIndex(fn_in.text)
             /\ ~MatchesCorrelation(fn_in.text) )
              => /\ fn_out.called \subseteq RetrievalSteps
                 /\ fn_out.called # {}
        /\ Cardinality(fn_out.called \cap Visualizations) <= 1

\* C22: a question that matches the stock-versus-CAC40 intent and the
\* correlation intent was handled by the first of the two only
C22_TwoIntentsMatched ==
    /\ fn_out.done
    /\ MatchesStockIndex(fn_in.text) /\ MatchesCorrelation(fn_in.text)
    /\ fn_out.called = {"stock_vs_index"}


\* The three URL forms the comments of extract_youtube_id document
IsWatchUrl(u) ==
    u.host \in YoutubeHosts /\ u.path = <<"/","w","a","t","c","h">> /\ u.v # <<>>
IsShortUrl(u) ==
    /\ u.host = ShortHost /\ Len(u.path) > 1 /\ u.path[1] = "/"
    /\ \A i \in 2..Len(u.path) : u.path[i] # "/"
IsEmbedUrl(u) ==
    /\ u.host \in YoutubeHosts
    /\ Len(u.path) = 7 + 11 /\ SubSeq(u.path, 1, 7) = <<"/","e","m","b","e","d","/">>
    /\ \A i \in 8..18 : u.path[i] \in IdChars

\* C23 (as stated): extract_youtube_id returns the v parameter of a watch
\* URL, the path of a youtu.be URL, the 11-character ID of an embed URL such
\* as https://www.youtube.com/embed/VIDEO_ID, and None for any other URL.
C23_IdOfEveryDocumentedForm ==
    fn_out.done =>
        fn_out.val =
            IF IsWatchUrl(fn_in) THEN [ some |-> TRUE, val |-> fn_in.v ]
            ELSE IF IsShortUrl(fn_in)
            THEN [ some |-> TRUE, val |-> SubSeq(fn_in.path, 2, Len(fn_in.path)) ]
            ELSE IF IsEmbedUrl(fn_in)
            THEN [ some |-> TRUE, val |-> SubSeq(fn_in.path, 8, 18) ]
            ELSE [ some |-> FALSE, val |-> <<>> ]


\* C24 (as stated): the sales table the correlation visualization works on
\* has integer years whether the reference CSV is read or regenerated, so
\* the visualization does not depend on the CSV having been written by an
\* earlier request.
C24_SalesTableIsTheSame ==
    [][ (asked'.n # asked.n /\ "correlation" \in asked'.called) =>
            /\ SalesYearType(salesCsv) = "int"
            /\ asked'.raised # "TypeError" ]_vars


\* The chatbot's own confirmation is among the messages
ShowsProcessed(msgs) ==
    \E i \in 1..Len(msgs) : msgs[i].by = "chatbot" /\ msgs[i].level = "success"

\* C25 (as stated): the chatbot shows its confirmation and appends the
\* "Uploaded" / "Processed" turns to the conversation log only when the
\* handler produced an index for the source; when the handler showed a
\* warning or an error, nothing is appended.
C25_LoggedOnlyWhenIndexed ==
    [][ ( /\ ingest'.n # ingest.n
          /\ ShowsProcessed(shown') \/ memory'.messages # memory.messages ) =>
            /\ ~HasAlert(ingest'.shown)
            /\ ingest'.path \in DOMAIN indexDir'
            /\ indexDir'[ingest'.path].kind = "dir" ]_vars


\* C26 (as stated): on one Process click, every uploaded file is processed,
\* in upload order, and the URL is not processed; the URL is processed only
\* when no file is uploaded; with neither a file nor a URL only a warning is
\* shown and the files, the indexes and the conversation log stay as they
\* are.
C26_OneBranchPerClick ==
    [][ /\ (pc = "files" /\ pending # <<>>) =>
              /\ ingest'.n = ingest.n + 1
              /\ ingest'.entry # "youtube" /\ ytDir' = ytDir
              /\ ingest'.source = SavedAs(Head(pending)).name
              /\ pending' = Tail(pending)
        /\ (ingest'.n # ingest.n /\ ingest'.entry = "youtube") =>
              pc = "process" /\ pending = <<>> /\ pending' = <<>>
        /\ (pc = "process" /\ pc' = "question" /\ ingest' = ingest /\ shown' # shown) =>
              /\ shown' = << Msg("warning", "chatbot", "Please upload a file or provide a YouTube URL") >>
              /\ UNCHANGED << disk, memory >> ]_vars


\* ------------------------------------------------------------------------
\* C27: every index persisted by an ingestion that completed before a
\* retrieval question is handled is part of the store that question is
\* answered from, also when the index was added after an earlier question of
\* the same session had been answered: each chunk of each index directory
\* is a document of the store the question's agent holds
\* ------------------------------------------------------------------------
C27_QuestionSeesEveryPersistedIndex ==
    [][ (asked'.n = asked.n + 1 /\ "similarity_search" \in asked'.called) =>
            \A k \in {x \in DOMAIN indexDir : indexDir[x].kind = "dir"} :
                \A i \in 1..Len(indexDir[k].docs) :
                    [ page_content |-> indexDir[k].docs[i].page_content,
                      source |-> indexDir[k].docs[i].source,
                      path |-> k, pos |-> i ] \in qa_agent'.vectorstore.docs ]_vars

\* A question was answered, a PDF was then ingested and indexed, and a
\* second retrieval question has searched a store holding the new index
C27_IndexedBetweenTwoQuestions ==
    /\ asked.n >= 2 /\ "similarity_search" \in asked.called
    /\ ingest.n >= 1 /\ ~ingest.existed /\ ingest.path \in DOMAIN indexDir
    /\ \E c \in qa_agent.vectorstore.docs : c.path = ingest.path
    /\ \E i, j, k \in 1..Len(memory.messages) :
          /\ i < j /\ j < k
          /\ memory.messages[i].role = "user"
          /\ memory.messages[i].content \in RetrievalQuestions
          /\ memory.messages[j].role = "user"
          /\ StartsWith(memory.messages[j].content, <<"U","p","l","o","a","d","e","d"," ">>)
          /\ memory.messages[k] = HumanMessage(asked.question)

=============================================================================
